---------------------------- MODULE Spec2Model ----------------------------
(***************************************************************************)
(* A model of the Wally grocery automation backend                         *)
(* (backend/app/services/automation.py and its callers).                   *)
(*                                                                         *)
(* The module holds several specifications over one set of variables, one  *)
(* per part of AutomationService:                                          *)
(*   SpecTime    the pure clock-time parsers (_parse_time_to_minutes,      *)
(*               _parse_time_range, _time_falls_in_range)                  *)
(*   SpecService the connection operations (connect_device,                *)
(*               open_walmart_app, search_item, disconnect)                *)
(*   SpecBatch   add_items_to_cart and add_items_to_cart_structured        *)
(*   SpecReorder reorder_last_order                                        *)
(*   SpecPlace   place_order with _select_delivery_date,                   *)
(*               _select_delivery_time and _confirm_reservation            *)
(*   SpecSlot    _select_delivery_time on a list of time slots             *)
(*   SpecResolve find_element_by_selector                                  *)
(*   SpecClick   find_and_click_element                                    *)
(*   SpecFlows   the loops of the four flows with the UI free, and         *)
(*               SpecFlowsLive, the same under weak fairness               *)
(*   SpecServe   the requests of one server process on its event loop      *)
(*   SpecCombo   reorder with extra items (endpoint and voice intent)      *)
(*   SpecIntent  the keyword fallback of the intent parser                 *)
(*   SpecCart    one call of _add_first_result_to_cart                     *)
(* Strings are sequences of one-character strings, so that lower(),        *)
(* strip(), re.split and re.match are computed as Python computes them.    *)
(***************************************************************************)
EXTENDS Integers, Sequences, FiniteSets, TLC

VARIABLES
    specific_time,    \* SpecTime: the clock expression handed to the parsers
    time_range_str,   \* SpecTime: the range expression handed to the parsers
    timeCall,         \* SpecTime: which parser was called ("none" before)
    retMinutes,       \* SpecTime: what _parse_time_to_minutes returned
    retRange,         \* SpecTime: what _parse_time_range returned
    retFalls          \* SpecTime: what _time_falls_in_range returned

timeVars == <<specific_time, time_range_str, timeCall, retMinutes, retRange, retFalls>>

VARIABLES
    driver,             \* self.driver: 0 for None, else the id of the Appium session it holds
    connected,          \* self.connected
    appium_available,   \* APPIUM_AVAILABLE, fixed when the module is imported
    selenium_available, \* SELENIUM_AVAILABLE, fixed when the module is imported
    created,            \* the number of Appium sessions webdriver.Remote has created
    live,               \* the ids of the sessions created and not quit
    lastOp,             \* SpecService: the public operation called last
    lastOk,             \* SpecService: the success / connected flag of its result
    escaped,            \* an exception left a public operation
    lastConnect,        \* the connect_device call made first by the operation: "none", "connected", "failed"
    lastOpen,           \* the open_walmart_app call made by it: "none", "opened", "failed"
    lastMessage,        \* the message of its result, by its opening words
    lastUi              \* the actions of search_item on the search bar that went through

svcVars == <<driver, connected, appium_available, selenium_available, created, live>>
callVars == <<lastOp, lastOk, escaped, lastConnect, lastOpen, lastMessage, lastUi>>

VARIABLES
    items,          \* SpecBatch: the batch handed to add_items_to_cart(_structured)
    structured,     \* SpecBatch: TRUE for add_items_to_cart_structured, FALSE for add_items_to_cart
    bpc,            \* SpecBatch: where the call stands: "loop", "add", "done"
    bi,             \* SpecBatch: the position in items of the item being processed
    search_term,    \* SpecBatch: the search term of the item being processed
    quantity,       \* SpecBatch: the quantity of the item being processed
    results,        \* SpecBatch: the result entries appended so far
    itemLog,        \* SpecBatch: per entry, which calls were made for the item and how they ended
    batchRet        \* SpecBatch: the "success" flag of the returned dictionary

batchVars == <<items, structured, bpc, bi, search_term, quantity, results, itemLog, batchRet>>

VARIABLES
    customer_name,          \* settings.customer_name
    orders,                 \* the purchase history of the account, newest order first
    screen,                 \* the screen the app shows: "none", "history", "detail", "account"
    detailOf,               \* the order whose detail view is open (0: none)
    off,                    \* how far the purchase-history list is scrolled
    rpc,                    \* SpecReorder: where reorder_last_order stands
    attempt,                \* attempt
    checked_card_positions, \* checked_card_positions
    order_cards,            \* order_cards: the handles of the last fetch, as the orders they were fetched for
    card_index,             \* card_index, counted from 1
    moved,                  \* the screen has changed since order_cards was fetched
    card_found,             \* card_found
    card_position,          \* card_position: a local that keeps its value from one card to the next
    rret,                   \* the dictionary reorder_last_order returned
    opened,                 \* the orders whose detail view was opened in this call
    reopened,               \* a detail view was opened a second time
    clickedOn,              \* the order on whose detail view reorder-all-items was clicked (0: none)
    faulted,                \* a driver call failed for a reason of its own
    staleUsed,              \* a card handle was used after the screen had changed
    backOnHistory,          \* driver.back() was issued while the purchase history was showing
    lateExam,               \* a card was skipped or opened with attempt >= max_attempts
    passedOver              \* the delivered orders never opened whose card was passed over as checked

reorderVars == <<customer_name, orders, screen, detailOf, off, rpc, attempt, checked_card_positions,
                 order_cards, card_index, moved, card_found, card_position, rret, opened, reopened,
                 clickedOn, faulted, staleUsed, backOnHistory, lateExam, passedOver>>

VARIABLES
    date_preference,    \* the date_preference handed to place_order (<<>> for None)
    dates,              \* the date slots of the date selector, left to right
    dview,              \* the first date slot on the screen
    ppc,                \* SpecPlace: where place_order stands
    pret,               \* the dictionary place_order returned
    uiLog,              \* the clicks made in this call, in order
    dateClicked,        \* the date slot clicked (0: none)
    scroll_attempts,    \* scroll_attempts of _select_delivery_date
    selected_date_text, \* selected_date_text
    pfaulted,           \* a driver call of the date selection failed for a reason of its own
    initialDates        \* date_viewgroups as first found

placeVars == <<date_preference, dates, dview, ppc, pret, uiLog, dateClicked, scroll_attempts,
               selected_date_text, pfaulted, initialDates>>

VARIABLES
    time_preference,      \* the time_preference handed to _select_delivery_time (<<>> for None)
    time_slots,           \* the items of the time list, top to bottom
    tview,                \* the first item of the time list on the screen
    tpc,                  \* SpecSlot: where _select_delivery_time stands
    time_scroll_attempts, \* scroll_attempts of _select_delivery_time
    seen_time_texts,      \* seen_time_texts
    no_new_items_count,   \* no_new_items_count
    best_match,           \* best_match (0 for None)
    timeClicked,          \* the item of the time list clicked (0: none)
    tret,                 \* the dictionary _select_delivery_time returned
    tfaulted              \* a driver call of the time selection failed for a reason of its own

slotVars == <<time_preference, time_slots, tview, tpc, time_scroll_attempts, seen_time_texts,
              no_new_items_count, best_match, timeClicked, tret, tfaulted>>

VARIABLES
    uiselector,   \* the uiselector handed to find_element_by_selector ("" when not configured)
    xpath,        \* the xpath handed to it
    resource_id,  \* the resource_id handed to it
    by_type,      \* by_type: "clickable" or "presence"
    located,      \* the strategies whose wait.until finds an element on this screen
    fpc,          \* SpecResolve: "call" before the resolver ran, "done" after
    queried,      \* the strategies queried, in order
    element,      \* the strategy whose element was returned ("" for none)
    raised        \* the resolver raised

resolveVars == <<uiselector, xpath, resource_id, by_type, located, fpc, queried, element, raised>>

VARIABLES
    button_top_y,      \* location['y'] of the element as the screen shows it
    button_height,     \* size['height'] of the element
    scroll_into_view,  \* the scroll_into_view argument
    cpc,               \* SpecClick: where find_and_click_element stands
    scroll_attempt,    \* scroll_attempt
    swipes,            \* the swipe gestures issued in this call
    handle,            \* how often the element handle was fetched (0: no handle)
    first_top_y,       \* button_top_y when the element was located
    clickTried,        \* the click was attempted
    clickHandle,       \* the handle the click was attempted on
    clickFailed,       \* the click attempt raised
    cret,              \* what find_and_click_element returned
    locator,           \* which of xpath, uiselector, resource_id the caller passed
    in_ad,             \* the element has an ad_container ancestor
    list_follows,      \* the list moves by just the length of each gesture (else as it will)
    refound_with,      \* the strategy of the last re-find after a swipe ("" before one)
    handle_swipes,     \* the swipes issued before the current handle was fetched
    went_up,           \* a swipe towards the top was issued (the list scrolls down)
    went_down,         \* a swipe towards the bottom was issued (the list scrolls up)
    last_length,       \* the length in pixels of the last swipe gesture
    last_need          \* how far the element's edge lay beyond the margin line at that swipe

clickVars == <<button_top_y, button_height, scroll_into_view, cpc, scroll_attempt, swipes, handle, first_top_y,
               clickTried, clickHandle, clickFailed, cret, locator, in_ad, list_follows, refound_with,
               handle_swipes, went_up, went_down, last_length, last_need>>

VARIABLES
    op,          \* SpecFlows: the operation invoked
    lpc,         \* SpecFlows: the loop or step the operation stands at ("returned" after its return)
    outer,       \* the counter of the operation's outer loop (attempt)
    inner,       \* the counter of the loop it stands in (scroll_attempt and the like)
    quiet,       \* no_new_items_count of the time list
    cards_left,  \* the order cards of this fetch the for loop has still to go through
    found_card,  \* card_found
    items_left,  \* the items the batch has still to go through
    tries_left,  \* the lookups of the add-to-cart control still to try
    plus_left    \* the clicks on the plus control still to make

flowVars == <<op, lpc, outer, inner, quiet, cards_left, found_card, items_left, tries_left, plus_left>>

VARIABLES
    rkind,         \* SpecServe: per request, the endpoint it was sent to
    rstate,        \* per request: "unsent", "ready" (its task waits for the event loop), "running", "returned"
    rpos,          \* per request, the steps of its handler already executed
    loop_thread,   \* the request whose task holds the event loop's thread, 0 when the loop is free
    driver_calls   \* the driver calls issued so far, each the number of the request it belongs to

serveVars == <<rkind, rstate, rpos, loop_thread, driver_calls>>

VARIABLES
    entry,             \* SpecCombo: "api" (POST /reorder-with-items) or "voice" (the reorder_with_items intent)
    extra_items,       \* request.items, or the intent's items
    opc,               \* where the operation stands: "call", "reordered", "adding", "returned"
    reorder_status,    \* what reorder_last_order came back with: "none", "success", "failure", "raised"
    service_calls,     \* the methods of the service invoked, in order
    pending_items,     \* the structured items add_items_to_cart_structured has still to go through
    ui_actions,        \* the searches and add-to-cart actions performed for the extra items
    add_items_status   \* the result of add_items_to_cart_structured in the response, None without one

comboVars == <<entry, extra_items, opc, reorder_status, service_calls, pending_items, ui_actions, add_items_status>>

VARIABLES
    command,         \* SpecIntent: the text command
    ipc,             \* "call", "parsed" (the fallback has returned), "executed"
    intent_type,     \* intent["type"], "" before the parse
    intent_items,    \* intent["items"], the empty list where the intent has none
    executed_calls   \* the methods of the automation service _execute_intent invoked

intentVars == <<command, ipc, intent_type, intent_items, executed_calls>>

VARIABLES
    add_quantity,  \* SpecCart: the quantity handed to _add_first_result_to_cart
    configured,    \* which of the selectors read from the configuration are not empty
    kpc,           \* where the call stands: "call", "step2", "step3", "plus", "returned"
    add_tried,     \* the locators find_and_click_element was called with, in order
    cart_clicks,   \* the clicks that went through, in order: "add" or "plus"
    plus_lookups,  \* the locators the plus control was waited for with, in order
    plus_button,   \* plus_button: "None", or the locator it was found with
    plus_i,        \* i of the loop over range(quantity - 1)
    cart_ret       \* the dictionary _add_first_result_to_cart returned

cartVars == <<add_quantity, configured, kpc, add_tried, cart_clicks, plus_lookups, plus_button, plus_i, cart_ret>>

vars == <<timeVars, svcVars, callVars, batchVars, reorderVars, placeVars, slotVars, resolveVars, clickVars, flowVars, serveVars, comboVars, intentVars, cartVars>>

\* what the actions of one specification leave alone
offTime == <<svcVars, callVars, batchVars, reorderVars, placeVars, slotVars, resolveVars, clickVars, flowVars, serveVars, comboVars, intentVars, cartVars>>
offService == <<timeVars, batchVars, reorderVars, placeVars, slotVars, resolveVars, clickVars, flowVars, serveVars, comboVars, intentVars, cartVars>>
offBatch == <<timeVars, callVars, reorderVars, placeVars, slotVars, resolveVars, clickVars, flowVars, serveVars, comboVars, intentVars, cartVars>>
offReorder == <<timeVars, callVars, batchVars, placeVars, slotVars, resolveVars, clickVars, flowVars, serveVars, comboVars, intentVars, cartVars>>
offPlace == <<timeVars, callVars, batchVars, reorderVars, slotVars, resolveVars, clickVars, flowVars, serveVars, comboVars, intentVars, cartVars>>
offSlot == <<timeVars, callVars, batchVars, reorderVars, placeVars, resolveVars, clickVars, flowVars, serveVars, comboVars, intentVars, cartVars>>
offResolve == <<timeVars, callVars, batchVars, reorderVars, placeVars, slotVars, clickVars, flowVars, serveVars, comboVars, intentVars, cartVars>>
offClick == <<timeVars, callVars, batchVars, reorderVars, placeVars, slotVars, resolveVars, flowVars, serveVars, comboVars, intentVars, cartVars>>
offFlow == <<timeVars, callVars, batchVars, reorderVars, placeVars, slotVars, resolveVars, clickVars, serveVars, comboVars, intentVars, cartVars>>
offServe == <<timeVars, callVars, batchVars, reorderVars, placeVars, slotVars, resolveVars, clickVars, flowVars, comboVars, intentVars, cartVars>>
offCombo == <<timeVars, callVars, batchVars, reorderVars, placeVars, slotVars, resolveVars, clickVars, flowVars, serveVars, intentVars, cartVars>>
offIntent == <<timeVars, callVars, batchVars, reorderVars, placeVars, slotVars, resolveVars, clickVars, flowVars, serveVars, comboVars, cartVars>>
offCart == <<timeVars, callVars, batchVars, reorderVars, placeVars, slotVars, resolveVars, clickVars, flowVars, serveVars, comboVars, intentVars>>

(***************************************************************************)
(* Strings                                                                 *)
(***************************************************************************)
Digit == {"0", "1", "2", "3", "4", "5", "6", "7", "8", "9"}

DigitVal(c) ==
    CASE c = "0" -> 0 [] c = "1" -> 1 [] c = "2" -> 2 [] c = "3" -> 3
      [] c = "4" -> 4 [] c = "5" -> 5 [] c = "6" -> 6 [] c = "7" -> 7
      [] c = "8" -> 8 [] c = "9" -> 9

DigitChar(d) ==
    CASE d = 0 -> "0" [] d = 1 -> "1" [] d = 2 -> "2" [] d = 3 -> "3"
      [] d = 4 -> "4" [] d = 5 -> "5" [] d = 6 -> "6" [] d = 7 -> "7"
      [] d = 8 -> "8" [] d = 9 -> "9"

\* str(n) for 0 <= n <= 99
Str(n) == IF n < 10 THEN <<DigitChar(n)>> ELSE <<DigitChar(n \div 10), DigitChar(n % 10)>>

\* str.lower(), on the letters the inputs use
UpperCase == <<"A", "B", "C", "D", "E", "F", "G", "H", "I", "J", "K", "L", "M",
               "N", "O", "P", "Q", "R", "S", "T", "U", "V", "W", "X", "Y", "Z">>

LowerCase == <<"a", "b", "c", "d", "e", "f", "g", "h", "i", "j", "k", "l", "m",
               "n", "o", "p", "q", "r", "s", "t", "u", "v", "w", "x", "y", "z">>

LowerChar(c) ==
    IF \E i \in 1..26 : UpperCase[i] = c
    THEN LowerCase[CHOOSE i \in 1..26 : UpperCase[i] = c]
    ELSE c

Lower(s) == [i \in 1..Len(s) |-> LowerChar(s[i])]

\* str.strip()
RECURSIVE LStrip(_)
LStrip(s) == IF s # <<>> /\ Head(s) = " " THEN LStrip(Tail(s)) ELSE s

RECURSIVE RStrip(_)
RStrip(s) == IF s # <<>> /\ s[Len(s)] = " " THEN RStrip(SubSeq(s, 1, Len(s) - 1)) ELSE s

Strip(s) == RStrip(LStrip(s))

\* sub in s
Contains(sub, s) ==
    \E i \in 1..(Len(s) - Len(sub) + 1) : SubSeq(s, i, i + Len(sub) - 1) = sub

\* the regular expression [- ]to[ ] matches s at position i
SepMatchesAt(s, i) ==
    /\ i + 3 <= Len(s)
    /\ s[i] \in {"-", " "}
    /\ s[i + 1] = "t"
    /\ s[i + 2] = "o"
    /\ s[i + 3] = " "

\* re.split(r'[- ]to[ ]', s): the pieces between the leftmost non-overlapping matches
RECURSIVE ReSplitFrom(_, _, _)
ReSplitFrom(s, i, start) ==
    IF i > Len(s) THEN <<SubSeq(s, start, Len(s))>>
    ELSE IF SepMatchesAt(s, i)
         THEN <<SubSeq(s, start, i - 1)>> \o ReSplitFrom(s, i + 4, i + 4)
         ELSE ReSplitFrom(s, i + 1, start)

ReSplit(s) == ReSplitFrom(s, 1, 1)

\* the length of the longest prefix of s made of characters of set
RECURSIVE PrefixLen(_, _)
PrefixLen(s, set) == IF s # <<>> /\ Head(s) \in set THEN 1 + PrefixLen(Tail(s), set) ELSE 0

\* int() of a sequence of digits
RECURSIVE IntOf(_)
IntOf(ds) == IF ds = <<>> THEN 0 ELSE 10 * IntOf(SubSeq(ds, 1, Len(ds) - 1)) + DigitVal(ds[Len(ds)])

(***************************************************************************)
(* Clock times (automation.py, _parse_time_to_minutes and its users)       *)
(***************************************************************************)
\* the None _parse_time_to_minutes returns when it fails
None == -1

\* the None _parse_time_range returns when it fails
NoRange == <<>>

\* re.match(r'(\d+)\s*(am|pm)', s): <<digits, period>>, or <<>> without a match
ClockMatch(s) ==
    LET nd   == PrefixLen(s, Digit)
        rest == SubSeq(s, nd + 1, Len(s))
        tl   == SubSeq(rest, PrefixLen(rest, {" "}) + 1, Len(rest))
    IN  IF nd >= 1 /\ Len(tl) >= 2 /\ tl[1] \in {"a", "p"} /\ tl[2] = "m"
        THEN <<SubSeq(s, 1, nd), tl[1]>>
        ELSE <<>>

\* the conversion without the special case of hour 12
ParseTimeToMinutesPlain(time_str) ==
    LET m == ClockMatch(Strip(Lower(time_str)))
    IN  IF m = <<>> THEN None
        ELSE IntOf(m[1]) * 60 + (IF m[2] = "a" THEN 0 ELSE 720)

\* _parse_time_to_minutes: minutes since midnight, or None
ParseTimeToMinutes(time_str) ==
    LET s0 == Strip(Lower(time_str))
        s1 == IF Contains(<<"-">>, s0) \/ Contains(<<" ", "t", "o", " ">>, s0)
              THEN Strip(ReSplit(s0)[1])
              ELSE s0
        m  == ClockMatch(s1)
    IN  IF m = <<>> THEN None
        ELSE LET hour == IntOf(m[1])
             IN  IF m[2] = "a"
                 THEN (IF hour = 12 THEN 0 ELSE hour) * 60
                 ELSE (IF hour # 12 THEN hour + 12 ELSE hour) * 60

\* _parse_time_range: <<start_minutes, end_minutes>>, or NoRange
ParseTimeRange(range_str) ==
    LET parts == ReSplit(Strip(Lower(range_str)))
    IN  IF Len(parts) # 2 THEN NoRange
        ELSE LET start_minutes == ParseTimeToMinutes(Strip(parts[1]))
                 end_minutes   == ParseTimeToMinutes(Strip(parts[2]))
             IN  IF start_minutes # None /\ end_minutes # None
                 THEN <<start_minutes, end_minutes>>
                 ELSE NoRange

TimeFallsInRange(t, range_str) ==
    LET specific_minutes == ParseTimeToMinutes(t)
    IN  IF specific_minutes = None THEN FALSE
        ELSE LET range_tuple == ParseTimeRange(range_str)
             IN  IF range_tuple = NoRange THEN FALSE
                 ELSE range_tuple[1] <= specific_minutes /\ specific_minutes <= range_tuple[2]

(***************************************************************************)
(* The service object and its driver session (automation.py, 41-163)       *)
(***************************************************************************)
\* self.driver = None
NoDriver == 0

\* the fields of the service and the sessions of the Appium server, as one record
Svc == [driver |-> driver, connected |-> connected, created |-> created, live |-> live]

\* what the environment does to one connect_device call: "adb devices" raises,
\* prints no "device", or prints one and then webdriver.Remote succeeds or raises
ConnectOutcomes == {"adb_raise", "no_device", "remote_ok", "remote_raise"}

\* connect_device: the service afterwards and the "connected" flag of the result
ConnectDevice(s, c) ==
    IF c \in {"adb_raise", "no_device"}
    THEN [s |-> s, connected |-> FALSE]
    ELSE IF appium_available /\ c = "remote_ok"
         THEN [s |-> [s EXCEPT !.driver = s.created + 1, !.connected = TRUE,
                               !.created = s.created + 1,
                               !.live = s.live \cup {s.created + 1}],
               connected |-> TRUE]
         ELSE \* the ADB fallback and the ADB-only mode
              [s |-> [s EXCEPT !.connected = TRUE], connected |-> TRUE]

\* activate_app (or "adb shell am start") returns or raises
OpenOutcomes == {"ok", "raise"}

\* open_walmart_app: the result of an inner connect_device is not looked at
OpenWalmartApp(s, c, act) ==
    LET s1 == IF ~s.connected THEN ConnectDevice(s, c).s ELSE s
    IN  [s |-> s1,
         via |-> IF appium_available /\ s1.driver # NoDriver THEN "appium" ELSE "adb",
         success |-> act = "ok"]

\* where the UI steps of search_item stop: "ok", or the driver call that raises
SearchOutcomes == {"ok", "find_search_bar", "click", "refind", "send_keys", "press_keycode", "find_results"}

SearchEnvs == [c1 : ConnectOutcomes, c2 : ConnectOutcomes, act : OpenOutcomes, ui : SearchOutcomes]

\* search_item: the service afterwards, the result and the UI actions performed
SearchItem(s, e) ==
    LET s1 == IF ~s.connected THEN ConnectDevice(s, e.c1).s ELSE s
        o  == OpenWalmartApp(s1, e.c2, e.act)
        s2 == o.s
        ui == [tapped  |-> e.ui \notin {"find_search_bar", "click"},
               typed   |-> e.ui \in {"ok", "press_keycode", "find_results"},
               entered |-> e.ui \in {"ok", "find_results"}]
        none == [tapped |-> FALSE, typed |-> FALSE, entered |-> FALSE]
    IN  IF ~selenium_available
        THEN [s |-> s2, success |-> FALSE, message |-> "Selenium not installed", ui |-> none]
        ELSE IF ~appium_available
        THEN [s |-> s2, success |-> FALSE, message |-> "Appium not installed", ui |-> none]
        ELSE IF s2.driver = NoDriver
        THEN [s |-> s2, success |-> FALSE, message |-> "Device not connected", ui |-> none]
        ELSE IF e.ui = "ok"
        THEN [s |-> s2, success |-> TRUE, message |-> "Searched for", ui |-> ui]
        ELSE [s |-> s2, success |-> FALSE, message |-> "Search failed", ui |-> ui]

\* the calls search_item makes before its own steps, and how they end: connect_device when
\* the service is not connected, then open_walmart_app
SearchSteps(s, e) ==
    LET c  == ConnectDevice(s, e.c1)
        s1 == IF ~s.connected THEN c.s ELSE s
    IN  [connect |-> IF s.connected THEN "none"
                     ELSE IF c.connected THEN "connected" ELSE "failed",
         open    |-> IF OpenWalmartApp(s1, e.c2, e.act).success THEN "opened" ELSE "failed"]

\* the environments of a search_item call on s, one for each way the call can go: the
\* outcome of a connect_device call that is not made is fixed
SearchEnvsOf(s) ==
    {e \in SearchEnvs :
        /\ s.connected => e.c1 = "remote_ok"
        /\ (s.connected \/ ConnectDevice(s, e.c1).connected) => e.c2 = "remote_ok"}

\* disconnect: driver.quit() is called outside any try; when it raises, the
\* exception leaves disconnect with driver and connected as they were
QuitOutcomes == {"ok", "raise"}

Disconnect(s, q) ==
    IF s.driver # NoDriver
    THEN IF q = "raise"
         THEN [s |-> s, raised |-> TRUE]
         ELSE [s |-> [s EXCEPT !.driver = NoDriver, !.connected = FALSE,
                               !.live = s.live \ {s.driver}],
               raised |-> FALSE]
    ELSE [s |-> [s EXCEPT !.connected = FALSE], raised |-> FALSE]

\* the service variables take the fields of s
SetSvc(s) ==
    /\ driver' = s.driver
    /\ connected' = s.connected
    /\ created' = s.created
    /\ live' = s.live
    /\ UNCHANGED <<appium_available, selenium_available>>


(***************************************************************************)
(* Parts of the state a specification does not use stay as constructed     *)
(***************************************************************************)
IdleTime ==
    /\ specific_time = <<>>
    /\ time_range_str = <<>>
    /\ timeCall = "none"
    /\ retMinutes = None
    /\ retRange = NoRange
    /\ retFalls = FALSE

\* AutomationService.__init__, with both libraries importable
IdleSvc ==
    /\ driver = NoDriver
    /\ connected = FALSE
    /\ appium_available = TRUE
    /\ selenium_available = TRUE
    /\ created = 0
    /\ live = {}

IdleCall ==
    /\ lastOp = "none"
    /\ lastOk = FALSE
    /\ escaped = FALSE
    /\ lastConnect = "none"
    /\ lastOpen = "none"
    /\ lastMessage = ""
    /\ lastUi = [tapped |-> FALSE, typed |-> FALSE, entered |-> FALSE]

\* no purchase history and no reorder_last_order call
NoPos == 0 - 100

NoReturn == [success |-> FALSE, kind |-> "none", customer_name |-> <<>>, count |-> 0]

IdleReorder ==
    /\ customer_name = <<>>
    /\ orders = <<>>
    /\ screen = "none"
    /\ detailOf = 0
    /\ off = 0
    /\ rpc = "done"
    /\ attempt = 0
    /\ checked_card_positions = {}
    /\ order_cards = <<>>
    /\ card_index = 1
    /\ moved = FALSE
    /\ card_found = FALSE
    /\ card_position = NoPos
    /\ rret = NoReturn
    /\ opened = {}
    /\ reopened = FALSE
    /\ clickedOn = 0
    /\ faulted = FALSE
    /\ staleUsed = FALSE
    /\ backOnHistory = FALSE
    /\ lateExam = FALSE
    /\ passedOver = {}

IdleBatch ==
    /\ items = <<>>
    /\ structured = TRUE
    /\ bpc = "done"
    /\ bi = 1
    /\ search_term = <<>>
    /\ quantity = 1
    /\ results = <<>>
    /\ itemLog = <<>>
    /\ batchRet = FALSE

NoPlaceReturn == [success |-> FALSE, step |-> "none", date |-> <<>>]

IdlePlace ==
    /\ date_preference = <<>>
    /\ dates = <<>>
    /\ dview = 1
    /\ ppc = "done"
    /\ pret = NoPlaceReturn
    /\ uiLog = <<>>
    /\ dateClicked = 0
    /\ scroll_attempts = 0
    /\ selected_date_text = <<>>
    /\ pfaulted = FALSE
    /\ initialDates = <<>>

IdleSlot ==
    /\ time_preference = <<>>
    /\ time_slots = <<>>
    /\ tview = 1
    /\ tpc = "done"
    /\ time_scroll_attempts = 0
    /\ seen_time_texts = {}
    /\ no_new_items_count = 0
    /\ best_match = 0
    /\ timeClicked = 0
    /\ tret = [success |-> FALSE, kind |-> "none", time |-> <<>>]
    /\ tfaulted = FALSE

IdleResolve ==
    /\ uiselector = ""
    /\ xpath = ""
    /\ resource_id = ""
    /\ by_type = "clickable"
    /\ located = {}
    /\ fpc = "done"
    /\ queried = <<>>
    /\ element = ""
    /\ raised = FALSE

IdleClick ==
    /\ button_top_y = 0
    /\ button_height = 0
    /\ scroll_into_view = FALSE
    /\ cpc = "done"
    /\ scroll_attempt = 0
    /\ swipes = 0
    /\ handle = 0
    /\ first_top_y = 0
    /\ clickTried = FALSE
    /\ clickHandle = 0
    /\ clickFailed = FALSE
    /\ cret = [ok |-> FALSE, msg |-> "none"]
    /\ locator = ""
    /\ in_ad = FALSE
    /\ list_follows = FALSE
    /\ refound_with = ""
    /\ handle_swipes = 0
    /\ went_up = FALSE
    /\ went_down = FALSE
    /\ last_length = 0
    /\ last_need = 0

IdleFlow ==
    /\ op = "none"
    /\ lpc = "returned"
    /\ outer = 0
    /\ inner = 0
    /\ quiet = 0
    /\ cards_left = 0
    /\ found_card = FALSE
    /\ items_left = 0
    /\ tries_left = 0
    /\ plus_left = 0

IdleServe ==
    /\ rkind = <<>>
    /\ rstate = <<>>
    /\ rpos = <<>>
    /\ loop_thread = 0
    /\ driver_calls = <<>>

IdleCombo ==
    /\ entry = "none"
    /\ extra_items = <<>>
    /\ opc = "returned"
    /\ reorder_status = "none"
    /\ service_calls = <<>>
    /\ pending_items = <<>>
    /\ ui_actions = <<>>
    /\ add_items_status = "None"

IdleIntent ==
    /\ command = <<>>
    /\ ipc = "executed"
    /\ intent_type = ""
    /\ intent_items = <<>>
    /\ executed_calls = <<>>

IdleCart ==
    /\ add_quantity = 1
    /\ configured = {}
    /\ kpc = "returned"
    /\ add_tried = <<>>
    /\ cart_clicks = <<>>
    /\ plus_lookups = <<>>
    /\ plus_button = "None"
    /\ plus_i = 0
    /\ cart_ret = [success |-> FALSE, step |-> "none", quantity |-> 0]

\* the parts that the actions of one specification leave alone, as constructed
IdleOffPlace == IdleTime /\ IdleCall /\ IdleBatch /\ IdleReorder

(***************************************************************************)
(* SpecService: the public operations that manage the session, called in   *)
(* any order on one AutomationService                                      *)
(***************************************************************************)
\* the number of sessions the Appium server is asked for in one behaviour
MaxSessions == 2

InitService ==
    /\ driver = NoDriver
    /\ connected = FALSE
    /\ appium_available \in BOOLEAN
    /\ selenium_available \in BOOLEAN
    /\ created = 0
    /\ live = {}
    /\ IdleCall
    /\ IdleTime
    /\ IdleBatch
    /\ IdleReorder
    /\ IdlePlace
    /\ IdleSlot
    /\ IdleResolve
    /\ IdleClick
    /\ IdleFlow
    /\ IdleServe
    /\ IdleCombo
    /\ IdleIntent
    /\ IdleCart

SvcConnectDevice ==
    \E c \in ConnectOutcomes :
        LET r == ConnectDevice(Svc, c)
        IN  /\ r.s.created <= MaxSessions
            /\ SetSvc(r.s)
            /\ lastOp' = "connect_device"
            /\ lastOk' = r.connected
            /\ escaped' = FALSE
            /\ lastConnect' = IF r.connected THEN "connected" ELSE "failed"
            /\ lastOpen' = "none"
            /\ lastMessage' = ""
            /\ lastUi' = [tapped |-> FALSE, typed |-> FALSE, entered |-> FALSE]
            /\ UNCHANGED offService

SvcOpenWalmartApp ==
    \E c \in ConnectOutcomes, act \in OpenOutcomes :
        LET r == OpenWalmartApp(Svc, c, act)
        IN  /\ r.s.created <= MaxSessions
            /\ SetSvc(r.s)
            /\ lastOp' = "open_walmart_app"
            /\ lastOk' = r.success
            /\ escaped' = FALSE
            /\ lastConnect' = IF connected THEN "none"
                              ELSE IF ConnectDevice(Svc, c).connected THEN "connected"
                              ELSE "failed"
            /\ lastOpen' = IF r.success THEN "opened" ELSE "failed"
            /\ lastMessage' = IF r.success THEN "Walmart app opened" ELSE "Failed to open app"
            /\ lastUi' = [tapped |-> FALSE, typed |-> FALSE, entered |-> FALSE]
            /\ UNCHANGED offService

SvcSearchItem ==
    \E e \in SearchEnvsOf(Svc) :
        LET r == SearchItem(Svc, e)
        IN  /\ r.s.created <= MaxSessions
            /\ SetSvc(r.s)
            /\ lastOp' = "search_item"
            /\ lastOk' = r.success
            /\ escaped' = FALSE
            /\ lastConnect' = SearchSteps(Svc, e).connect
            /\ lastOpen' = SearchSteps(Svc, e).open
            /\ lastMessage' = r.message
            /\ lastUi' = r.ui
            /\ UNCHANGED offService

SvcDisconnect ==
    \E q \in QuitOutcomes :
        LET r == Disconnect(Svc, q)
        IN  /\ SetSvc(r.s)
            /\ lastOp' = "disconnect"
            /\ lastOk' = ~r.raised
            /\ escaped' = r.raised
            /\ lastConnect' = "none"
            /\ lastOpen' = "none"
            /\ lastMessage' = ""
            /\ lastUi' = [tapped |-> FALSE, typed |-> FALSE, entered |-> FALSE]
            /\ UNCHANGED offService

NextService ==
    \/ SvcConnectDevice
    \/ SvcOpenWalmartApp
    \/ SvcSearchItem
    \/ SvcDisconnect

SpecService == InitService /\ [][NextService]_vars

\* C6: no public operation of AutomationService lets an exception reach its
\* caller: whatever driver call fails, the operation returns a result.
C6_NoOperationRaises == escaped = FALSE

(***************************************************************************)
(* Adding items to the cart (automation.py, 265-718)                       *)
(***************************************************************************)
Milk == <<"m", "i", "l", "k">>
Eggs == <<"e", "g", "g", "s">>

IsX(c) == c \in {"x", "X"}

\* re.match(r'^(\d+)\s+(.+)$', item.strip()): "3 milk"
QtyFirst(item) ==
    LET t  == Strip(item)
        nd == PrefixLen(t, Digit)
        ws == PrefixLen(SubSeq(t, nd + 1, Len(t)), {" "})
    IN  IF nd >= 1 /\ ws >= 1 /\ Len(t) > nd + ws
        THEN [quantity |-> IntOf(SubSeq(t, 1, nd)), search_term |-> Strip(SubSeq(t, nd + ws + 1, Len(t)))]
        ELSE [quantity |-> 0, search_term |-> <<>>]

\* re.match(r'(\d+)x\s*(.+)', item, re.IGNORECASE): "3x milk"
QtyX(item) ==
    LET nd == PrefixLen(item, Digit)
    IN  IF nd >= 1 /\ Len(item) > nd + 1 /\ IsX(item[nd + 1])
        THEN [quantity |-> IntOf(SubSeq(item, 1, nd)), search_term |-> Strip(SubSeq(item, nd + 2, Len(item)))]
        ELSE [quantity |-> 0, search_term |-> <<>>]

\* \s*x\s*(\d+) matches at the start of t: the digits, or <<>>
XQtyTail(t) ==
    LET a  == SubSeq(t, PrefixLen(t, {" "}) + 1, Len(t))
        b  == IF a # <<>> /\ IsX(a[1]) THEN SubSeq(a, 2, Len(a)) ELSE <<>>
        c  == SubSeq(b, PrefixLen(b, {" "}) + 1, Len(b))
    IN  SubSeq(c, 1, PrefixLen(c, Digit))

\* re.match(r'(.+?)\s*x\s*(\d+)', item, re.IGNORECASE): "milk x3", the shortest prefix first
XQty(item) ==
    LET ps == {k \in 1..Len(item) : XQtyTail(SubSeq(item, k + 1, Len(item))) # <<>>}
    IN  IF ps # {}
        THEN LET k == CHOOSE k \in ps : \A j \in ps : k <= j
             IN  [quantity |-> IntOf(XQtyTail(SubSeq(item, k + 1, Len(item)))),
                  search_term |-> Strip(SubSeq(item, 1, k))]
        ELSE [quantity |-> 0, search_term |-> <<>>]

\* add_items_to_cart: the quantity and the search term of one item string
ParseItem(item) ==
    IF QtyFirst(item).quantity # 0 \/ QtyFirst(item).search_term # <<>> THEN QtyFirst(item)
    ELSE IF QtyX(item).quantity # 0 \/ QtyX(item).search_term # <<>> THEN QtyX(item)
    ELSE IF XQty(item).quantity # 0 \/ XQty(item).search_term # <<>> THEN XQty(item)
    ELSE [quantity |-> 1, search_term |-> item]


\* what the environment does to one _add_first_result_to_cart call: the product list is
\* found or not, an add-to-cart control is found and clicked by one of the lookups or by
\* none, the plus control is found or not, and plusGood clicks on it work before one raises
AddEnvs == [list : BOOLEAN, add : BOOLEAN, plusFound : BOOLEAN, plusGood : 0..2]

\* _add_first_result_to_cart: the result and the clicks performed
AddFirstResultToCart(s, q, a) ==
    LET no(msg) == [success |-> FALSE, message |-> msg, addClicked |-> FALSE, plusClicks |-> 0]
    IN  IF ~selenium_available THEN no("Selenium not installed")
        ELSE IF ~appium_available THEN no("Appium not installed")
        ELSE IF s.driver = NoDriver THEN no("Device not connected")
        ELSE IF ~a.list THEN no("STEP 1 FAILED")
        ELSE IF ~a.add THEN no("STEP 2 FAILED")
        ELSE IF q > 1 /\ ~a.plusFound
        THEN [success |-> FALSE, message |-> "STEP 3 FAILED - Plus button not found",
              addClicked |-> TRUE, plusClicks |-> 0]
        ELSE IF q > 1 /\ a.plusGood < q - 1
        THEN [success |-> FALSE, message |-> "STEP 3 FAILED - Could not increase quantity",
              addClicked |-> TRUE, plusClicks |-> a.plusGood]
        ELSE [success |-> TRUE, message |-> "Added to cart from list view",
              addClicked |-> TRUE, plusClicks |-> IF q > 1 THEN q - 1 ELSE 0]

\* all(r["success"] for r in results)
BatchSuccessAny(rs) == \E i \in DOMAIN rs : rs[i].success

BatchSuccess(rs) == \A i \in DOMAIN rs : rs[i].success

NoLog == [searchCalled |-> FALSE, searchOk |-> FALSE, addCalled |-> FALSE, addOk |-> FALSE,
          addClicked |-> FALSE, plusClicks |-> 0]

\* one pass of the for loop up to the search: the item's name and quantity are read (or
\* parsed), an item without a name gets its entry at once, the others are searched for
BatchSearch ==
    /\ bpc = "loop"
    /\ bi <= Len(items)
    /\ LET item_data == items[bi]
           parsed == IF structured
                     THEN [quantity |-> item_data.quantity, search_term |-> item_data.item]
                     ELSE ParseItem(item_data.item)
       IN  IF structured /\ item_data.item = <<>>
           THEN /\ results' = Append(results, [item |-> item_data.item, success |-> FALSE,
                                               message |-> "Item name is required"])
                /\ itemLog' = Append(itemLog, NoLog)
                /\ bi' = bi + 1
                /\ UNCHANGED <<bpc, search_term, quantity, svcVars>>
           ELSE \E e \in SearchEnvsOf(Svc) :
                  LET r == SearchItem(Svc, e)
                  IN  /\ r.s.created <= MaxSessions
                      /\ SetSvc(r.s)
                      /\ search_term' = parsed.search_term
                      /\ quantity' = parsed.quantity
                      /\ IF r.success
                         THEN /\ bpc' = "add"
                              /\ UNCHANGED <<bi, results, itemLog>>
                         ELSE /\ results' = Append(results, [item |-> item_data.item, success |-> FALSE,
                                                             message |-> "Failed to search for"])
                              /\ itemLog' = Append(itemLog, [NoLog EXCEPT !.searchCalled = TRUE])
                              /\ bi' = bi + 1
                              /\ bpc' = "loop"
    /\ UNCHANGED <<items, structured, batchRet, offBatch>>

\* the rest of the pass after a successful search: the first result is added to the cart
\* and the entry takes the success flag and the message of that result
BatchAdd ==
    /\ bpc = "add"
    /\ \E a \in AddEnvs :
         LET r == AddFirstResultToCart(Svc, quantity, a)
         IN  /\ results' = Append(results, [item |-> items[bi].item, success |-> r.success,
                                             message |-> r.message])
             /\ itemLog' = Append(itemLog, [searchCalled |-> TRUE, searchOk |-> TRUE,
                                             addCalled |-> TRUE, addOk |-> r.success,
                                             addClicked |-> r.addClicked, plusClicks |-> r.plusClicks])
    /\ bi' = bi + 1
    /\ bpc' = "loop"
    /\ UNCHANGED <<items, structured, search_term, quantity, batchRet, svcVars, offBatch>>

\* after the last item: {"success": all(...), "results": results}
BatchReturn ==
    /\ bpc = "loop"
    /\ bi > Len(items)
    /\ batchRet' = BatchSuccess(results)
    /\ bpc' = "done"
    /\ UNCHANGED <<items, structured, bi, search_term, quantity, results, itemLog, svcVars, offBatch>>

(***************************************************************************)
(* SpecBatch: one call of add_items_to_cart_structured or add_items_to_cart *)
(***************************************************************************)
\* the longest batch
MaxItems == 2

StructuredItems ==
    { [item |-> <<>>, quantity |-> 1], [item |-> Milk, quantity |-> 2], [item |-> Eggs, quantity |-> 1],
      [item |-> Eggs, quantity |-> 3] }

\* "eggs", "2 milk", "2x milk", "milk x2"
StringItems ==
    { [item |-> Eggs, quantity |-> 1],
      [item |-> <<"2", " ">> \o Milk, quantity |-> 1],
      [item |-> <<"2", "x", " ">> \o Milk, quantity |-> 1],
      [item |-> Milk \o <<" ", "x", "2">>, quantity |-> 1] }

SeqsUpTo(S, n) == UNION {[1..k -> S] : k \in 0..n}

\* the service a flow is called on: as constructed, holding a session, or connected
\* through the ADB fallback without one
SvcStarts ==
    { [driver |-> NoDriver, connected |-> FALSE, created |-> 0, live |-> {}],
      [driver |-> 1, connected |-> TRUE, created |-> 1, live |-> {1}],
      [driver |-> NoDriver, connected |-> TRUE, created |-> 0, live |-> {}] }

InitSvcStart ==
    /\ \E s \in SvcStarts :
          /\ driver = s.driver
          /\ connected = s.connected
          /\ created = s.created
          /\ live = s.live
    /\ appium_available \in BOOLEAN
    /\ selenium_available \in BOOLEAN
    /\ (driver # NoDriver => appium_available)
    /\ IdleResolve
    /\ IdleClick
    /\ IdleFlow
    /\ IdleServe
    /\ IdleCombo
    /\ IdleIntent
    /\ IdleCart

InitBatch ==
    /\ structured \in BOOLEAN
    /\ items \in SeqsUpTo(IF structured THEN StructuredItems ELSE StringItems, MaxItems)
    /\ bpc = "loop"
    /\ bi = 1
    /\ search_term = <<>>
    /\ quantity = 1
    /\ results = <<>>
    /\ itemLog = <<>>
    /\ batchRet = FALSE
    /\ InitSvcStart
    /\ IdleCall
    /\ IdleTime
    /\ IdleReorder
    /\ IdlePlace
    /\ IdleSlot

NextBatch ==
    \/ BatchSearch
    \/ BatchAdd
    \/ BatchReturn

SpecBatch == InitBatch /\ [][NextBatch]_vars

\* C1: the batch holds one entry per input item, in input order; an item whose search or
\* add fails gets an entry with success = false and the items after it are still searched
\* for and added; the batch's success flag is the AND of the entries' flags.
C1_BatchIsolatesItems ==
    /\ Len(results) = Len(itemLog)
    /\ Len(results) = (IF bpc = "done" THEN Len(items) ELSE bi - 1)
    /\ \A i \in DOMAIN results :
          /\ results[i].item = items[i].item
          /\ results[i].success = (itemLog[i].searchOk /\ itemLog[i].addOk)
          /\ itemLog[i].searchCalled = ~(structured /\ items[i].item = <<>>)
          /\ itemLog[i].addCalled = itemLog[i].searchOk
    /\ bpc = "done" => batchRet = (\A i \in DOMAIN results : results[i].success)

\* a batch whose first item failed and whose second item was searched for and added
C1_Witness ==
    /\ bpc = "done"
    /\ Len(results) = 2
    /\ ~results[1].success
    /\ itemLog[1].searchCalled
    /\ results[2].success
    /\ itemLog[2].addClicked
    /\ batchRet = FALSE

(***************************************************************************)
(* Reordering the last order (automation.py, 720-1183)                     *)
(*                                                                         *)
(* The purchase history is a scrolling list of order cards of one height.  *)
(* A card's screen position is its place in the list less the scroll       *)
(* offset; find_elements returns a handle for every card that is at least  *)
(* partly on the screen.  A handle used after the list has moved either    *)
(* raises (the element went stale) or still answers for its card at the    *)
(* card's new position, shown or not.                                      *)
(***************************************************************************)
\* "Maximum number of orders to check"
max_attempts == 20

\* the height of an order card and of the screen, in the unit swipes are measured in
CardHeight == 2

ScreenHeight == 4

\* how far a swipe from 70% to 30% of the screen height can move the list
SwipeDists == {1, 2}

Tom == <<"T", "o", "m">>
LooseTom == <<" ", "t", "o", "m">>
Pat == <<"P", "a", "t">>

CardY(k, o) == (k - 1) * CardHeight - o

\* card.is_displayed()
Rendered(k, o) == CardY(k, o) > 0 - CardHeight /\ CardY(k, o) < ScreenHeight

\* the list does not scroll past its last card
MaxOff == IF Len(orders) * CardHeight > ScreenHeight THEN Len(orders) * CardHeight - ScreenHeight ELSE 0

SwipeList(o, d) == IF o + d > MaxOff THEN MaxOff ELSE o + d

\* driver.find_elements(By.ID, order_card_id): the cards on the screen, top to bottom
RenderedCards(o) == SelectSeq([k \in 1..Len(orders) |-> k], LAMBDA k : Rendered(k, o))

\* checked_card_positions.add(card_index): an index is never equal to an (x, y) pair
IndexKey(i) == 100 + i

\* the local variables and the screen of one reorder_last_order call
Ro ==
    [screen |-> screen, detailOf |-> detailOf, off |-> off, rpc |-> rpc, attempt |-> attempt,
     checked_card_positions |-> checked_card_positions, order_cards |-> order_cards,
     card_index |-> card_index, moved |-> moved, card_found |-> card_found,
     card_position |-> card_position, rret |-> rret, opened |-> opened, reopened |-> reopened,
     clickedOn |-> clickedOn, faulted |-> faulted, staleUsed |-> staleUsed,
     backOnHistory |-> backOnHistory, lateExam |-> lateExam, passedOver |-> passedOver]

SetRo(r) ==
    /\ screen' = r.screen
    /\ detailOf' = r.detailOf
    /\ off' = r.off
    /\ rpc' = r.rpc
    /\ attempt' = r.attempt
    /\ checked_card_positions' = r.checked_card_positions
    /\ order_cards' = r.order_cards
    /\ card_index' = r.card_index
    /\ moved' = r.moved
    /\ card_found' = r.card_found
    /\ card_position' = r.card_position
    /\ rret' = r.rret
    /\ opened' = r.opened
    /\ reopened' = r.reopened
    /\ clickedOn' = r.clickedOn
    /\ faulted' = r.faulted
    /\ staleUsed' = r.staleUsed
    /\ backOnHistory' = r.backOnHistory
    /\ lateExam' = r.lateExam
    /\ passedOver' = r.passedOver
    /\ UNCHANGED <<customer_name, orders>>

\* return {"success": ..., "message": ...}: the kind of message, and the customer name and
\* the number the message carries
Return(r, success, kind, name, n) ==
    [r EXCEPT !.rpc = "done",
              !.rret = [success |-> success, kind |-> kind, customer_name |-> name, count |-> n]]

Fail(r, kind) == Return(r, FALSE, kind, <<>>, 0)

\* what the environment does to the steps before the loop
StartEnvs == [c : ConnectOutcomes, act : OpenOutcomes, account : {"ok", "raise"},
              view_all : {"ok", "not_found", "raise"}]

\* one environment for each way the steps can go
StartEnvsOf(s) == {e \in StartEnvs : s.connected => e.c = "remote_ok"}

\* reorder_last_order up to the loop: the checks, the connection, the app, the Account tab
\* and the "View all" button
ReorderStart(s, r, e) ==
    LET s1 == IF ~s.connected THEN ConnectDevice(s, e.c).s ELSE s
        o  == OpenWalmartApp(s1, e.c, e.act)
        f  == [r EXCEPT !.faulted = TRUE]
    IN  IF ~selenium_available THEN [s |-> s, r |-> Fail(r, "selenium")]
        ELSE IF ~appium_available THEN [s |-> s, r |-> Fail(r, "appium")]
        ELSE IF s1.driver = NoDriver THEN [s |-> s1, r |-> Fail(r, "not_connected")]
        ELSE IF customer_name = <<>> THEN [s |-> s1, r |-> Fail(r, "no_customer_name")]
        ELSE IF e.account = "raise"
        THEN [s |-> o.s, r |-> Fail([f EXCEPT !.screen = "home"], "account")]
        ELSE IF e.view_all = "not_found"
        THEN [s |-> o.s, r |-> Fail([f EXCEPT !.screen = "account"], "view_all_not_found")]
        ELSE IF e.view_all = "raise"
        THEN [s |-> o.s, r |-> Fail([f EXCEPT !.screen = "account"], "view_all")]
        ELSE [s |-> o.s,
              r |-> [r EXCEPT !.screen = "history", !.off = 0, !.attempt = 0,
                              !.checked_card_positions = {}, !.rpc = "while",
                              !.faulted = (e.act # "ok")]]

\* the head of the while loop: the budget check and the fetch of the order cards
ReorderFetch(r, f) ==
    LET cards == IF r.screen = "history" /\ f = "ok" THEN RenderedCards(r.off) ELSE <<>>
    IN  IF r.attempt >= max_attempts
        THEN Return(r, FALSE, "exhausted", customer_name, max_attempts)
        ELSE IF cards = <<>>
        THEN Fail([r EXCEPT !.faulted = @ \/ f # "ok"], "no_cards")
        ELSE [r EXCEPT !.order_cards = cards, !.card_index = 1, !.moved = FALSE,
                       !.card_found = FALSE, !.rpc = "for"]

\* continue: on to the next handle of order_cards, or out of the for loop after the last
Continue(r) ==
    IF r.card_index + 1 > Len(r.order_cards)
    THEN [r EXCEPT !.card_index = @ + 1, !.rpc = "endfor"]
    ELSE [r EXCEPT !.card_index = @ + 1]

\* the handler of an exception raised while a card is processed: driver.back(), the card
\* marked with whatever card_position holds, attempt += 1, break
ExceptCard(r) ==
    [r EXCEPT !.backOnHistory = @ \/ r.screen = "history",
              !.screen = IF r.screen = "detail" THEN "history"
                         ELSE IF r.screen = "history" THEN "account" ELSE @,
              !.detailOf = 0,
              !.checked_card_positions =
                  @ \cup {IF r.card_position # NoPos THEN r.card_position ELSE IndexKey(r.card_index)},
              !.attempt = @ + 1,
              !.card_found = TRUE,
              !.rpc = "endfor"]

\* what a handle fetched before the list moved does, and which driver call fails by itself
HandleOutcomes == {"ok", "stale"}

CardFaults == {"none", "carousel", "raise"}

\* one pass of the for loop up to the click on the card's image carousel
CardStep(r, res, f, d) ==
    LET k      == r.order_cards[r.card_index]
        y      == CardY(k, r.off)
        late   == r.attempt >= max_attempts
        r0     == [r EXCEPT !.staleUsed = @ \/ r.moved]
        r1     == [r0 EXCEPT !.card_position = y]
        marked == [r1 EXCEPT !.checked_card_positions = @ \cup {y}]
    IN  IF r.moved /\ res = "stale" THEN ExceptCard(r0)
        ELSE IF ~Rendered(k, r.off) THEN Continue(r0)
        ELSE IF y \in r.checked_card_positions
        THEN Continue([r1 EXCEPT !.passedOver =
                          IF orders[k].arriving \/ k \in r.opened THEN @ ELSE @ \cup {k}])
        ELSE IF f = "raise" THEN ExceptCard([r1 EXCEPT !.faulted = TRUE])
        ELSE IF orders[k].arriving
        THEN Continue([marked EXCEPT !.off = SwipeList(r.off, d),
                                     !.moved = @ \/ SwipeList(r.off, d) # r.off,
                                     !.attempt = @ + 1,
                                     !.card_found = TRUE,
                                     !.lateExam = @ \/ late])
        ELSE IF f = "carousel"
        THEN Continue([marked EXCEPT !.attempt = @ + 1, !.faulted = TRUE])
        ELSE [marked EXCEPT !.screen = "detail", !.detailOf = k, !.moved = TRUE,
                            !.opened = @ \cup {k}, !.reopened = @ \/ k \in r.opened,
                            !.lateExam = @ \/ late, !.rpc = "detail"]

\* what the environment does on the detail view: the name field can be read or not, the
\* second read of its text gives the same text, another text or raises, and the reorder
\* control is found and clicked, not found, or raises when clicked
DetailEnvs == [read : {"ok", "unreadable"}, reread : {"same", "differs", "raise"},
               button : {"found", "not_found", "click_raise"}]

\* the rest of the pass, on the detail view: the customer name is looked for and compared,
\* then either back to the list or on to the reorder control
DetailStep(r, e) ==
    LET o     == orders[r.detailOf]
        found == o.hasName /\ e.read = "ok"
        order_customer_name == Strip(o.name)
        f     == [r EXCEPT !.faulted = TRUE]
    IN  IF ~found \/ Lower(order_customer_name) # Lower(customer_name)
        THEN [r EXCEPT !.faulted = @ \/ (o.hasName /\ e.read # "ok"),
                       !.screen = "history", !.detailOf = 0,
                       !.checked_card_positions = @ \cup {r.card_position},
                       !.attempt = @ + 1, !.card_found = TRUE, !.rpc = "endfor"]
        ELSE IF e.reread = "raise" THEN ExceptCard(f)
        ELSE IF e.reread = "differs" THEN Return(f, TRUE, "success", <<>>, 0)
        ELSE IF e.button = "not_found" THEN Fail(f, "no_reorder_button")
        ELSE IF e.button = "click_raise" THEN ExceptCard(f)
        ELSE Return([r EXCEPT !.clickedOn = r.detailOf], TRUE, "success", order_customer_name, 0)

\* after the for loop: "if not card_found", a swipe to load more and attempt += 1
EndForStep(r, sw, d) ==
    IF r.card_found THEN [r EXCEPT !.rpc = "while"]
    ELSE IF sw = "raise" THEN Fail([r EXCEPT !.faulted = TRUE], "error_checking")
    ELSE [r EXCEPT !.off = IF r.screen = "history" THEN SwipeList(r.off, d) ELSE @,
                   !.attempt = @ + 1, !.rpc = "while"]

(***************************************************************************)
(* SpecReorder: one call of reorder_last_order on a purchase history       *)
(***************************************************************************)
\* the most delivered orders in a history
MaxDelivered == 2

\* a history long enough for the list to scroll during every attempt
LongRun == 22

\* the orders still arriving are the newest ones, at the head of the history
ArrivingRuns == {0, 1, 2, LongRun}

Arriving == [arriving |-> TRUE, hasName |-> TRUE, name |-> Pat]

Delivered ==
    { [arriving |-> FALSE, hasName |-> TRUE, name |-> Tom],
      [arriving |-> FALSE, hasName |-> TRUE, name |-> LooseTom],
      [arriving |-> FALSE, hasName |-> TRUE, name |-> Pat],
      [arriving |-> FALSE, hasName |-> FALSE, name |-> <<>>] }

\* three delivered orders of another customer: more cards than the screen shows at once
OtherCustomersOrders == [k \in 1..3 |-> [arriving |-> FALSE, hasName |-> TRUE, name |-> Pat]]

OrderLists ==
    {[k \in 1..a |-> Arriving] \o tail :
        a \in ArrivingRuns, tail \in SeqsUpTo(Delivered, MaxDelivered) \cup {OtherCustomersOrders}}

InitReorder ==
    /\ customer_name \in {Tom, <<>>}
    /\ orders \in OrderLists
    /\ screen = "none"
    /\ detailOf = 0
    /\ off = 0
    /\ rpc = "start"
    /\ attempt = 0
    /\ checked_card_positions = {}
    /\ order_cards = <<>>
    /\ card_index = 1
    /\ moved = FALSE
    /\ card_found = FALSE
    /\ card_position = NoPos
    /\ rret = NoReturn
    /\ opened = {}
    /\ reopened = FALSE
    /\ clickedOn = 0
    /\ faulted = FALSE
    /\ staleUsed = FALSE
    /\ backOnHistory = FALSE
    /\ lateExam = FALSE
    /\ passedOver = {}
    /\ InitSvcStart
    /\ IdleCall
    /\ IdleTime
    /\ IdleBatch
    /\ IdlePlace
    /\ IdleSlot
    /\ IdleResolve
    /\ IdleClick
    /\ IdleFlow
    /\ IdleServe
    /\ IdleCombo
    /\ IdleIntent
    /\ IdleCart

DoReorderStart ==
    /\ rpc = "start"
    /\ \E e \in StartEnvsOf(Svc) :
         LET n == ReorderStart(Svc, Ro, e)
         IN  /\ n.s.created <= MaxSessions
             /\ SetSvc(n.s)
             /\ SetRo(n.r)
    /\ UNCHANGED offReorder

DoReorderFetch ==
    /\ rpc = "while"
    /\ \E f \in {"ok", "raise"} : SetRo(ReorderFetch(Ro, f))
    /\ UNCHANGED <<svcVars, offReorder>>

DoCardStep ==
    /\ rpc = "for"
    /\ \E res \in (IF moved THEN HandleOutcomes ELSE {"ok"}), f \in CardFaults, d \in SwipeDists :
         SetRo(CardStep(Ro, res, f, d))
    /\ UNCHANGED <<svcVars, offReorder>>

DoDetailStep ==
    /\ rpc = "detail"
    /\ \E e \in DetailEnvs : SetRo(DetailStep(Ro, e))
    /\ UNCHANGED <<svcVars, offReorder>>

DoEndForStep ==
    /\ rpc = "endfor"
    /\ \E sw \in {"ok", "raise"}, d \in SwipeDists : SetRo(EndForStep(Ro, sw, d))
    /\ UNCHANGED <<svcVars, offReorder>>

NextReorder ==
    \/ DoReorderStart
    \/ DoReorderFetch
    \/ DoCardStep
    \/ DoDetailStep
    \/ DoEndForStep

SpecReorder == InitReorder /\ [][NextReorder]_vars

\* the order's name field holds the configured customer name, compared as the code does
NameMatches(k) == orders[k].hasName /\ Lower(Strip(orders[k].name)) = Lower(customer_name)

\* the call got as far as the purchase history
ReachedHistory == rpc # "start" /\ rret.kind \notin {"selenium", "appium", "not_connected", "no_customer_name"}

\* the first two cards are still arriving and the third carries the configured name
TwoArrivingThenMatch ==
    /\ Len(orders) >= 3
    /\ orders[1].arriving
    /\ orders[2].arriving
    /\ ~orders[3].arriving
    /\ orders[3].hasName
    /\ orders[3].name = customer_name

\* C2: on a history whose first two cards are still arriving and whose third card carries
\* the configured customer name, and with no driver call failing by itself, the detail
\* views of cards 1 and 2 are never opened and the call ends with card 3's detail view
\* opened, reorder-all-items clicked there and success returned with card 3's name.
C2_ThirdCardReordered ==
    (TwoArrivingThenMatch /\ ~faulted) =>
        /\ 1 \notin opened
        /\ 2 \notin opened
        /\ (rpc = "done" /\ ReachedHistory) =>
              /\ 3 \in opened
              /\ clickedOn = 3
              /\ rret.success
              /\ rret.customer_name = orders[3].name

\* C3: success is returned only if reorder-all-items was clicked, in this call, on the
\* detail view of an order whose name field is the configured customer name (case
\* ignored); on an order whose name field differs or is missing the control is never
\* clicked.
C3_SuccessOnlyAfterMatchingReorder ==
    /\ (rpc = "done" /\ rret.success) => clickedOn # 0
    /\ clickedOn # 0 => NameMatches(clickedOn)

\* the same, for the calls in which the name field reads the same both times it is read
C3_WhenNameReadsTheSame == ~faulted => C3_SuccessOnlyAfterMatchingReorder

\* C4: the attempt counter never exceeds max_attempts, and no card is skipped or opened
\* once max_attempts cards have been checked.
C4_AtMostMaxAttempts == attempt <= max_attempts /\ ~lateExam

\* C5: when the attempt budget is exhausted without a match, the call returns
\* success = false with a message that carries the configured customer name and the
\* number of attempts made, and reorder-all-items has not been clicked.
C5_ExhaustedBudgetReported ==
    (rpc = "done" /\ rret.kind = "exhausted") =>
        /\ ~rret.success
        /\ rret.customer_name = customer_name
        /\ rret.count = attempt
        /\ clickedOn = 0

\* the same, with the number in the message read as the budget
C5_ExhaustedNamesBudget ==
    (rpc = "done" /\ rret.kind = "exhausted") =>
        /\ ~rret.success
        /\ rret.customer_name = customer_name
        /\ rret.count = max_attempts
        /\ clickedOn = 0

(***************************************************************************)
(* Placing the order (automation.py, 1468-1801 and 2289-2355)              *)
(*                                                                         *)
(* The date selector is a horizontal list of date slots of which a window  *)
(* is on the screen; a scroll to the right moves the window on, up to the  *)
(* end of the list.                                                        *)
(***************************************************************************)
\* the scrolls of the date list made for a preference
max_scroll_attempts == 5

\* how many date slots the screen shows at once
DateWindow == 2

\* how many slots a scroll of the date list moves it on
DateShifts == {1, 2}

sRadioButton == <<"R", "a", "d", "i", "o", " ", "B", "u", "t", "t", "o", "n">>
sSelected == <<"S", "e", "l", "e", "c", "t", "e", "d">>
sToday == <<"T", "o", "d", "a", "y">>
sFull == <<"f", "u", "l", "l">>
sTodayLower == <<"t", "o", "d", "a", "y">>
sTomorrow == <<"t", "o", "m", "o", "r", "r", "o", "w">>

\* zip(day_names, day_abbrevs)
DayNames ==
    << <<<<"m", "o", "n", "d", "a", "y">>, <<"m", "o", "n">>>>,
       <<<<"t", "u", "e", "s", "d", "a", "y">>, <<"t", "u", "e">>>>,
       <<<<"w", "e", "d", "n", "e", "s", "d", "a", "y">>, <<"w", "e", "d">>>>,
       <<<<"t", "h", "u", "r", "s", "d", "a", "y">>, <<"t", "h", "u">>>>,
       <<<<"f", "r", "i", "d", "a", "y">>, <<"f", "r", "i">>>>,
       <<<<"s", "a", "t", "u", "r", "d", "a", "y">>, <<"s", "a", "t">>>>,
       <<<<"s", "u", "n", "d", "a", "y">>, <<"s", "u", "n">>>> >>

\* the date slots on the screen when the list is scrolled to v, left to right
DatesShown(v) == SelectSeq([k \in 1..Len(dates) |-> k], LAMBDA k : k >= v /\ k < v + DateWindow)

\* the list does not scroll past its last slot
ScrollDates(v, d) ==
    LET last == IF Len(dates) > DateWindow THEN Len(dates) - DateWindow + 1 ELSE 1
    IN  IF v + d > last THEN last ELSE v + d

\* find_date_viewgroups: the slots shown whose description says "Radio Button" and that
\* are clickable or selected
FindDateViewgroups(v) ==
    SelectSeq(DatesShown(v),
              LAMBDA k : /\ Contains(sRadioButton, dates[k].desc)
                         /\ (dates[k].clickable \/ Contains(sSelected, dates[k].desc)))

\* the first element of a list of slots that lies in S, 0 if none does
FirstDate(vgs, S) ==
    LET I == {i \in 1..Len(vgs) : vgs[i] \in S}
    IN  IF I = {} THEN 0 ELSE vgs[CHOOSE i \in I : \A j \in I : i <= j]

\* the first pair of day_names / day_abbrevs one of which occurs in the preference, 0 if none
RECURSIVE MatchedDayFrom(_, _)
MatchedDayFrom(pref, i) ==
    IF i > Len(DayNames) THEN 0
    ELSE IF Contains(DayNames[i][1], pref) \/ Contains(DayNames[i][2], pref) THEN i
    ELSE MatchedDayFrom(pref, i + 1)

NotFull(desc) == ~Contains(sFull, Lower(desc))

\* the slot of date_viewgroups picked for a preference (lower case, stripped), 0 if none;
\* the preferences considered hold no digit, so the match on date numbers never applies
MatchDate(pref, vgs) ==
    LET all == 1..Len(dates)
        d   == MatchedDayFrom(pref, 1)
    IN  IF pref = sTodayLower
        THEN FirstDate(vgs, {k \in all : /\ Contains(sToday, dates[k].desc)
                                          /\ Contains(sSelected, dates[k].desc)
                                          /\ NotFull(dates[k].desc)})
        ELSE IF pref = sTomorrow
        THEN \* "Tomorrow is always the second item (index 1)"
             IF Len(vgs) > 1 /\ NotFull(dates[vgs[2]].desc) THEN vgs[2] ELSE 0
        ELSE FirstDate(vgs, {k \in all : /\ NotFull(dates[k].desc)
                                          /\ d # 0
                                          /\ \/ Contains(DayNames[d][1], Lower(dates[k].desc))
                                             \/ Contains(DayNames[d][2], Lower(dates[k].desc))})

\* with no preference: the first slot whose text does not say "full"
FirstAvailableDate(vgs) ==
    FirstDate(vgs, {k \in 1..Len(dates) : ~Contains(sFull, Lower(Strip(dates[k].text)))})

\* content_desc.split("Radio Button")[0]
RECURSIVE BeforeRadioButton(_)
BeforeRadioButton(desc) ==
    IF desc = <<>> THEN <<>>
    ELSE IF Len(desc) >= Len(sRadioButton) /\ SubSeq(desc, 1, Len(sRadioButton)) = sRadioButton THEN <<>>
    ELSE <<Head(desc)>> \o BeforeRadioButton(Tail(desc))

\* selected_date_text
DateText(k) ==
    IF date_preference # <<>> THEN Strip(BeforeRadioButton(dates[k].desc)) ELSE Strip(dates[k].text)

\* the local variables and the screen of one place_order call
Po ==
    [dview |-> dview, ppc |-> ppc, pret |-> pret, uiLog |-> uiLog, dateClicked |-> dateClicked,
     scroll_attempts |-> scroll_attempts, selected_date_text |-> selected_date_text,
     pfaulted |-> pfaulted, initialDates |-> initialDates]

SetPo(p) ==
    /\ dview' = p.dview
    /\ ppc' = p.ppc
    /\ pret' = p.pret
    /\ uiLog' = p.uiLog
    /\ dateClicked' = p.dateClicked
    /\ scroll_attempts' = p.scroll_attempts
    /\ selected_date_text' = p.selected_date_text
    /\ pfaulted' = p.pfaulted
    /\ initialDates' = p.initialDates
    /\ UNCHANGED <<date_preference, dates>>

\* return {"success": False, "message": f"Step {step} failed - ..."}; step "0" stands for
\* the checks before step 1
PFail(p, step) ==
    [p EXCEPT !.ppc = "done", !.pret = [success |-> FALSE, step |-> step, date |-> <<>>]]

Click(p, what) == [p EXCEPT !.uiLog = Append(@, what)]

PlaceEnvs == [c : ConnectOutcomes, act : OpenOutcomes]

PlaceEnvsOf(s) == {e \in PlaceEnvs : s.connected => e.c = "remote_ok"}

\* place_order up to step 1: the checks, the connection and the app
PlaceStart(s, p, e) ==
    LET s1 == IF ~s.connected THEN ConnectDevice(s, e.c).s ELSE s
        o  == OpenWalmartApp(s1, e.c, e.act)
    IN  IF ~selenium_available \/ ~appium_available THEN [s |-> s, p |-> PFail(p, "0")]
        ELSE IF s1.driver = NoDriver THEN [s |-> s1, p |-> PFail(p, "0")]
        ELSE [s |-> o.s, p |-> [p EXCEPT !.ppc = "cart"]]

\* Step 1: click cart_button
CartStep(p, f) ==
    IF f = "ok" THEN [Click(p, "cart") EXCEPT !.ppc = "address"] ELSE PFail(p, "1")

\* Step 2: click cart_view_address_and_delivery_time_button; the date list shows its head
AddressStepGoesOn(p, f) ==
    [(IF f = "ok" THEN Click(p, "address") ELSE p)
        EXCEPT !.ppc = "date", !.dview = 1, !.initialDates = FindDateViewgroups(1)]

AddressStep(p, f) ==
    IF f = "ok"
    THEN [Click(p, "address") EXCEPT !.ppc = "date", !.dview = 1,
                                     !.initialDates = FindDateViewgroups(1)]
    ELSE PFail(p, "2")

DateEnvs == [find : {"ok", "raise"}, shift : DateShifts, click : {"ok", "raise"}]

\* Step 3.1, _select_delivery_date: one pass of the loop that matches the preference against
\* the slots shown and scrolls on, or the single pass made without a preference
DateStep(p, e) ==
    LET pref == Strip(Lower(date_preference))
        vgs  == FindDateViewgroups(p.dview)
        vg   == IF date_preference # <<>> THEN MatchDate(pref, vgs) ELSE FirstAvailableDate(vgs)
        f    == [p EXCEPT !.pfaulted = TRUE]
    IN  IF p.scroll_attempts = 0 /\ e.find = "raise" THEN PFail(f, "3.1")
        ELSE IF date_preference # <<>> /\ p.scroll_attempts >= max_scroll_attempts THEN PFail(p, "3.1")
        ELSE IF vg # 0
        THEN IF e.click = "raise" THEN PFail(f, "3.1")
             ELSE [Click(p, "date") EXCEPT !.dateClicked = vg,
                                           !.selected_date_text =
                                               IF date_preference # <<>> THEN DateText(vg)
                                               ELSE Strip(dates[vg].text),
                                           !.ppc = "time"]
        ELSE IF date_preference # <<>>
        THEN [p EXCEPT !.dview = ScrollDates(p.dview, e.shift), !.scroll_attempts = @ + 1]
        ELSE PFail(p, "3.1")

\* Step 3.2, _select_delivery_time: a slot is clicked, or none is found, or the click raises
TimeOutcomes == {"selected", "none", "click_raise"}

TimeStep(p, o) ==
    IF o = "selected" THEN [Click(p, "slot") EXCEPT !.ppc = "reserve"] ELSE PFail(p, "3.2")

\* Step 3.3, _confirm_reservation, and the return of place_order
ReserveStep(p, f) ==
    IF f = "ok"
    THEN [Click(p, "reserve") EXCEPT !.ppc = "done",
                                     !.pret = [success |-> TRUE, step |-> "", date |-> p.selected_date_text]]
    ELSE PFail(p, "3.3")

(***************************************************************************)
(* SpecPlace: one call of place_order                                      *)
(***************************************************************************)
\* the most date slots of a date list
MaxDates == 3

TodaySlot == [desc |-> <<"T", "o", "d", "a", "y", " ", "S", "e", "l", "e", "c", "t", "e", "d", " ", "R", "a", "d", "i", "o", " ", "B", "u", "t", "t", "o", "n">>,
    text |-> <<"T", "o", "d", "a", "y">>, clickable |-> TRUE]

WedSlot == [desc |-> <<"W", "e", "d", " ", "R", "a", "d", "i", "o", " ", "B", "u", "t", "t", "o", "n">>,
    text |-> <<"W", "e", "d">>, clickable |-> TRUE]

ThuFullSlot == [desc |-> <<"T", "h", "u", " ", "F", "u", "l", "l", " ", "R", "a", "d", "i", "o", " ", "B", "u", "t", "t", "o", "n">>,
    text |-> <<"T", "h", "u", " ", "F", "u", "l", "l">>, clickable |-> TRUE]

FriShutSlot == [desc |-> <<"F", "r", "i", " ", "R", "a", "d", "i", "o", " ", "B", "u", "t", "t", "o", "n">>,
    text |-> <<"F", "r", "i">>, clickable |-> FALSE]

\* a full day as a ViewGroup carries it: the marker in the content-desc, no text of its own
SatFullSlot == [desc |-> <<"S", "a", "t", " ", "F", "u", "l", "l", " ", "R", "a", "d", "i", "o", " ", "B", "u", "t", "t", "o", "n">>,
    text |-> <<>>, clickable |-> TRUE]

DateSlots == {TodaySlot, WedSlot, ThuFullSlot, FriShutSlot, SatFullSlot}

\* None, "today", "tomorrow", " Tomorrow", "Wed"
DatePreferences == {<<>>, <<"t", "o", "d", "a", "y">>, <<"t", "o", "m", "o", "r", "r", "o", "w">>, <<" ", "T", "o", "m", "o", "r", "r", "o", "w">>, <<"W", "e", "d">>}

InitPlace ==
    /\ date_preference \in DatePreferences
    /\ dates \in SeqsUpTo(DateSlots, MaxDates)
    /\ dview = 1
    /\ ppc = "start"
    /\ pret = NoPlaceReturn
    /\ uiLog = <<>>
    /\ dateClicked = 0
    /\ scroll_attempts = 0
    /\ selected_date_text = <<>>
    /\ pfaulted = FALSE
    /\ initialDates = <<>>
    /\ InitSvcStart
    /\ IdleOffPlace
    /\ IdleSlot
    /\ IdleResolve
    /\ IdleClick
    /\ IdleFlow
    /\ IdleServe
    /\ IdleCombo
    /\ IdleIntent
    /\ IdleCart

DoPlaceStart ==
    /\ ppc = "start"
    /\ \E e \in PlaceEnvsOf(Svc) :
         LET n == PlaceStart(Svc, Po, e)
         IN  /\ n.s.created <= MaxSessions
             /\ SetSvc(n.s)
             /\ SetPo(n.p)
    /\ UNCHANGED offPlace

DoCartStep ==
    /\ ppc = "cart"
    /\ \E f \in {"ok", "fail"} : SetPo(CartStep(Po, f))
    /\ UNCHANGED <<svcVars, offPlace>>

DoAddressStep ==
    /\ ppc = "address"
    /\ \E f \in {"ok", "fail"} : SetPo(AddressStep(Po, f))
    /\ UNCHANGED <<svcVars, offPlace>>

DoDateStep ==
    /\ ppc = "date"
    /\ \E e \in DateEnvs : SetPo(DateStep(Po, e))
    /\ UNCHANGED <<svcVars, offPlace>>

DoTimeStep ==
    /\ ppc = "time"
    /\ \E o \in TimeOutcomes : SetPo(TimeStep(Po, o))
    /\ UNCHANGED <<svcVars, offPlace>>

DoReserveStep ==
    /\ ppc = "reserve"
    /\ \E f \in {"ok", "fail"} : SetPo(ReserveStep(Po, f))
    /\ UNCHANGED <<svcVars, offPlace>>

NextPlace ==
    \/ DoPlaceStart
    \/ DoCartStep
    \/ DoAddressStep
    \/ DoDateStep
    \/ DoTimeStep
    \/ DoReserveStep

SpecPlace == InitPlace /\ [][NextPlace]_vars

\* the clicks of the five steps, in the order of the steps
StepClicks == <<"cart", "address", "date", "slot", "reserve">>

StepNumbers == <<"1", "2", "3.1", "3.2", "3.3">>

\* C7: the clicks of place_order come in the order cart, address-and-delivery-time, date,
\* time slot, reserve; when a step fails no click of a later step is made (the reserve
\* button is clicked only after a date and a time slot were clicked) and the failure
\* returned carries the number of the step that failed.
C7_StepsInOrderAndShortCircuit ==
    /\ Len(uiLog) <= Len(StepClicks)
    /\ uiLog = SubSeq(StepClicks, 1, Len(uiLog))
    /\ (ppc = "done" /\ pret.success) => uiLog = StepClicks
    /\ (ppc = "done" /\ ~pret.success /\ pret.step # "0") =>
          /\ Len(uiLog) < Len(StepClicks)
          /\ pret.step = StepNumbers[Len(uiLog) + 1]
    /\ (ppc = "done" /\ pret.step = "0") => uiLog = <<>>

\* the time-slot selection failed after the date was clicked: step 3.2 is reported and the
\* reserve button was not clicked
C7_Witness ==
    /\ ppc = "done"
    /\ ~pret.success
    /\ pret.step = "3.2"
    /\ uiLog = <<"cart", "address", "date">>

\* C8: in every successful place_order run the address matching the configured customer
\* name was selected (change-address click, then the click on the matching radio button)
\* before the delivery date was selected.
C8_AddressSelectedBeforeDate ==
    (ppc = "done" /\ pret.success) =>
        \E i, j, k \in 1..Len(uiLog) :
            /\ i < j
            /\ j < k
            /\ uiLog[i] = "change_address"
            /\ uiLog[j] = "address_radio"
            /\ uiLog[k] = "date"

\* C9: for the preference "tomorrow" and a date list of at least two slots, the slot
\* clicked by _select_delivery_date is the one at position 1 of the list as first shown,
\* whatever its description says.
C9_TomorrowIsPositionOne ==
    (/\ Strip(Lower(date_preference)) = sTomorrow
     /\ Len(initialDates) >= 2
     /\ ~pfaulted
     /\ ppc # "date") => dateClicked = initialDates[2]

\* the same, for a slot at position 1 whose description does not say "full"
C9_TomorrowWhenNotFull ==
    (/\ Strip(Lower(date_preference)) = sTomorrow
     /\ Len(initialDates) >= 2
     /\ NotFull(dates[initialDates[2]].desc)
     /\ ~pfaulted
     /\ ppc # "date") => dateClicked = initialDates[2]

(***************************************************************************)
(* SpecTime: the parsers applied to inputs drawn from bounded sets         *)
(***************************************************************************)
AM == <<"a", "m">>
PM == <<"p", "m">>
Periods == {AM, PM}

\* the hours of the 12-hour clock
Hours == 1..12

\* the hours the range inputs take their ends from
RangeHours == {5, 6, 8, 10, 12}

ClockText(h, p) == Str(h) \o p

ClockTexts == {ClockText(h, p) : h \in Hours, p \in Periods}

\* clock expressions in other spellings, and texts that are no clock expression
OtherTimeTexts ==
    { <<"8", "A", "M">>, <<"8", " ", "a", "m">>, <<" ", "2", "p", "m", " ">>,
      <<>>, <<"8">>, <<"n", "o", "o", "n">> }

TimeInputs == ClockTexts \cup OtherTimeTexts

Dash == <<"-">>
To   == <<" ", "t", "o", " ">>

RangeEnds == {ClockText(h, p) : h \in RangeHours, p \in Periods} \cup {<<"n", "o", "o", "n">>}

RangeSeps == {Dash, To, <<" ", "-", " ">>, <<"-", "t", "o", " ">>}

RangeInputs == {a \o sep \o b : a \in RangeEnds, b \in RangeEnds, sep \in RangeSeps}

InitTime ==
    /\ specific_time \in TimeInputs
    /\ time_range_str \in RangeInputs
    /\ timeCall = "none"
    /\ retMinutes = None
    /\ retRange = NoRange
    /\ retFalls = FALSE
    /\ IdleSvc
    /\ IdleCall
    /\ IdleBatch
    /\ IdleReorder
    /\ IdlePlace
    /\ IdleSlot
    /\ IdleResolve
    /\ IdleClick
    /\ IdleFlow
    /\ IdleServe
    /\ IdleCombo
    /\ IdleIntent
    /\ IdleCart

CallParseTimeToMinutes ==
    /\ timeCall = "none"
    /\ timeCall' = "_parse_time_to_minutes"
    /\ retMinutes' = ParseTimeToMinutes(specific_time)
    /\ UNCHANGED <<specific_time, time_range_str, retRange, retFalls>>
    /\ UNCHANGED offTime

CallParseTimeRange ==
    /\ timeCall = "none"
    /\ timeCall' = "_parse_time_range"
    /\ retRange' = ParseTimeRange(time_range_str)
    /\ UNCHANGED <<specific_time, time_range_str, retMinutes, retFalls>>
    /\ UNCHANGED offTime

CallTimeFallsInRange ==
    /\ timeCall = "none"
    /\ timeCall' = "_time_falls_in_range"
    /\ retFalls' = TimeFallsInRange(specific_time, time_range_str)
    /\ UNCHANGED <<specific_time, time_range_str, retMinutes, retRange>>
    /\ UNCHANGED offTime

NextTime ==
    \/ CallParseTimeToMinutes
    \/ CallParseTimeRange
    \/ CallTimeFallsInRange

SpecTime == InitTime /\ [][NextTime]_vars

(***************************************************************************)
(* What the clock expressions mean, stated without the parsers             *)
(***************************************************************************)
\* minutes since midnight of the clock expression "<h>am" / "<h>pm", None for other texts
RefMinutes(text) ==
    IF \E h \in Hours, p \in Periods : text = ClockText(h, p)
    THEN LET hp == CHOOSE hp \in Hours \X Periods : text = ClockText(hp[1], hp[2])
         IN  (hp[1] % 12) * 60 + (IF hp[2] = PM THEN 720 ELSE 0)
    ELSE None

\* the two ends of a range written "<start>-<end>" or "<start> to <end>", <<>> for other texts
RefRangeEnds(text) ==
    IF \E a \in RangeEnds, b \in RangeEnds, sep \in {Dash, To} : text = a \o sep \o b
    THEN LET abs == CHOOSE abs \in RangeEnds \X RangeEnds \X {Dash, To} :
                        text = abs[1] \o abs[3] \o abs[2]
         IN  <<abs[1], abs[2]>>
    ELSE <<>>

\* C10: _time_falls_in_range(t, r) is true exactly when start <= t <= end, for
\* every clock time t and every range r whose ends parse, written with a dash
\* or with the word "to"; _parse_time_range returns the (start, end) pair for
\* both spellings, and None when either end fails to parse.
C10_FallsInRangeBothSpellings ==
    LET ends == RefRangeEnds(time_range_str)
        t    == RefMinutes(specific_time)
    IN  ends # <<>> =>
            LET s == RefMinutes(ends[1])
                e == RefMinutes(ends[2])
            IN  /\ (timeCall = "_time_falls_in_range" /\ t # None /\ s # None /\ e # None)
                       => retFalls = (s <= t /\ t <= e)
                /\ timeCall = "_parse_time_range"
                       => retRange = (IF s # None /\ e # None THEN <<s, e>> ELSE NoRange)

\* C10 restricted to ranges written with the word "to": what the code does do
C10_FallsInRangeToSpelling ==
    Contains(To, time_range_str) => C10_FallsInRangeBothSpellings

\* C11: _parse_time_to_minutes maps every clock expression "<h>am" / "<h>pm" with h in
\* 1..12 to (h mod 12)*60 minutes, plus 720 for pm: 8am is 480, 12am is 0, 12pm is 720,
\* 2pm is 840, and every result lies in 0..1380.
C11_ClockToMinutes ==
    (timeCall = "_parse_time_to_minutes" /\ specific_time \in ClockTexts) =>
        /\ retMinutes = RefMinutes(specific_time)
        /\ retMinutes \in 0..1380
        /\ specific_time = ClockText(8, AM) => retMinutes = 480
        /\ specific_time = ClockText(12, AM) => retMinutes = 0
        /\ specific_time = ClockText(12, PM) => retMinutes = 720
        /\ specific_time = ClockText(2, PM) => retMinutes = 840

\* the parser has been applied to "12am" and returned 0
C11_Witness ==
    /\ timeCall = "_parse_time_to_minutes"
    /\ specific_time = ClockText(12, AM)
    /\ retMinutes = 0

(***************************************************************************)
(* Time-slot selection (automation.py, _select_delivery_time, 1964-2287)   *)
(*                                                                         *)
(* time_slots is the content of the time list, top to bottom; TimeWindow   *)
(* of its items, from tview on, are on the screen.                         *)
(***************************************************************************)
\* the scrolls of the time list made for a preference
max_time_scroll_attempts == 50

\* scrolls in a row that show nothing new before the list is taken to have ended
end_of_list_count == 3

\* how many items of the time list the screen shows at once
TimeWindow == 2

\* how many items a scroll of the time list moves it on
TimeShifts == {1, 2}

SkipSpaces(s, i) == i + PrefixLen(SubSeq(s, i, Len(s)), {" "})

\* (\d+)\s*(am|pm) matched at position i of s: <<digits, period, next position>>, or <<>>
ClockAt(s, i) ==
    LET nd == PrefixLen(SubSeq(s, i, Len(s)), Digit)
        j  == SkipSpaces(s, i + nd)
    IN  IF nd >= 1 /\ j + 1 <= Len(s) /\ s[j] \in {"a", "p"} /\ s[j + 1] = "m"
        THEN <<SubSeq(s, i, i + nd - 1), <<s[j], "m">>, j + 2>>
        ELSE <<>>

\* \s*-\s* matched at position i of s: the next position, or 0
DashAt(s, i) ==
    LET j == SkipSpaces(s, i)
    IN  IF j <= Len(s) /\ s[j] = "-" THEN SkipSpaces(s, j + 1) ELSE 0

\* \s*[- ]to[ ]\s* matched at position i of s: the next position, or 0
ToAt(s, i) ==
    LET j == SkipSpaces(s, i)
        k == IF j <= Len(s) /\ s[j] = "-" THEN j
             ELSE IF j > i THEN j - 1
             ELSE 0
    IN  IF k # 0 /\ SepMatchesAt(s, k) THEN SkipSpaces(s, k + 4) ELSE 0

\* (\d+)\s*(am|pm) sep (\d+)\s*(am|pm) matched at position i of s, sep being the dash
\* pattern or the "to" pattern: <<start digits, start period, end digits, end period>>
RangeAt(s, i, dash) ==
    LET a == ClockAt(s, i)
    IN  IF a = <<>> THEN <<>>
        ELSE LET j == IF dash THEN DashAt(s, a[3]) ELSE ToAt(s, a[3])
             IN  IF j = 0 THEN <<>>
                 ELSE LET b == ClockAt(s, j)
                      IN  IF b = <<>> THEN <<>> ELSE <<a[1], a[2], b[1], b[2]>>

\* re.search of the range pattern in s: the groups of the leftmost match, or <<>>
RangeSearch(s, dash) ==
    LET I == {i \in 1..Len(s) : RangeAt(s, i, dash) # <<>>}
    IN  IF I = {} THEN <<>> ELSE RangeAt(s, CHOOSE i \in I : \A j \in I : i <= j, dash)

\* re.match(r'^\d+\s*(am|pm)$', s)
IsSpecificTime(s) ==
    LET a == ClockAt(s, 1)
    IN  a # <<>> /\ a[3] = Len(s) + 1

\* the two re.search calls that make is_time_range
IsTimeRange(s) == RangeSearch(s, FALSE) # <<>> \/ RangeSearch(s, TRUE) # <<>>

\* re.sub(r'\s+', '', s)
NoSpaces(s) == SelectSeq(s, LAMBDA c : c # " ")

\* re.findall(r'\d+', s)
RECURSIVE FindAllNumbers(_)
FindAllNumbers(s) ==
    IF s = <<>> THEN <<>>
    ELSE LET nd == PrefixLen(s, Digit)
         IN  IF nd = 0 THEN FindAllNumbers(Tail(s))
             ELSE <<SubSeq(s, 1, nd)>> \o FindAllNumbers(SubSeq(s, nd + 1, Len(s)))

sUnavailable == <<"u", "n", "a", "v", "a", "i", "l", "a", "b", "l", "e">>
sMorning == <<"m", "o", "r", "n", "i", "n", "g">>
sAfternoon == <<"a", "f", "t", "e", "r", "n", "o", "o", "n">>
sEvening == <<"e", "v", "e", "n", "i", "n", "g">>

\* the clock texts that stand for the morning, the afternoon and the evening
MorningTimes == {Str(h) \o <<"a", "m">> : h \in 6..11} \cup {Str(12) \o <<"p", "m">>}
AfternoonTimes == {Str(h) \o <<"p", "m">> : h \in {12, 1, 2, 3, 4, 5}}
EveningTimes == {Str(h) \o <<"p", "m">> : h \in 5..9}

\* f"{start_hour}{start_period}" handed to _parse_time_to_minutes
HourMinutes(digits, period) == ParseTimeToMinutes(Str(IntOf(digits)) \o period)

\* the items of the time list on the screen when it is scrolled to v, top to bottom
SlotsShown(v) ==
    SelectSeq([k \in 1..Len(time_slots) |-> k], LAMBDA k : k >= v /\ k < v + TimeWindow)

\* the list does not scroll past its last item
ScrollSlots(v, d) ==
    LET last == IF Len(time_slots) > TimeWindow THEN Len(time_slots) - TimeWindow + 1 ELSE 1
    IN  IF v + d > last THEN last ELSE v + d

\* find_time_slots: the items shown that are no promotion card and hold a time text view
FindTimeSlots(v) == SelectSeq(SlotsShown(v), LAMBDA k : time_slots[k].slot)

\* the item says "Full" or "Unavailable"
SlotFull(k) ==
    \/ Contains(sFull, Lower(Strip(time_slots[k].text)))
    \/ Contains(sUnavailable, Lower(Strip(time_slots[k].text)))
    \/ Contains(sFull, Lower(time_slots[k].desc))

\* the element of a set of one element
One(S) == CHOOSE x \in S : TRUE

\* the specific-time branch once the three clock texts are parsed: "select" when the time
\* lies strictly inside the slot's range and nearer to its midpoint than to its ends,
\* "keep" when it lies strictly inside only, "no" otherwise (distances are doubled to
\* stay in the integers)
SpecificDecision(start_minutes, end_minutes, target_minutes) ==
    LET Abs(x) == IF x < 0 THEN 0 - x ELSE x
        mid2   == Abs(2 * target_minutes - (start_minutes + end_minutes))
    IN  IF start_minutes = None \/ end_minutes = None \/ target_minutes = None THEN "no"
        ELSE IF ~(start_minutes < target_minutes /\ target_minutes < end_minutes) THEN "no"
        ELSE IF /\ mid2 < 2 * Abs(target_minutes - start_minutes)
                /\ mid2 < 2 * Abs(target_minutes - end_minutes)
             THEN "select"
             ELSE "keep"

\* the specific-time branch for one slot
SpecificMatch(pref, text) ==
    One({ IF r = <<>> THEN "no"
          ELSE One({ SpecificDecision(sm, em, tm) : sm \in {HourMinutes(r[1], r[2])},
                                                    em \in {HourMinutes(r[3], r[4])},
                                                    tm \in {ParseTimeToMinutes(pref)} })
          : r \in {RangeSearch(text, TRUE)} })

\* the range the preference names: the "to" pattern is searched first, then the dash
PrefRange(pref_lower) ==
    One({ IF r # <<>> THEN r ELSE RangeSearch(pref_lower, TRUE)
          : r \in {RangeSearch(pref_lower, FALSE)} })

\* the comparison of the ranges once both are parsed: start and end both equal
RangesEqual(pref_lower, text) ==
    \E p \in {PrefRange(pref_lower)}, sl \in {RangeSearch(text, TRUE)} :
        /\ p # <<>>
        /\ sl # <<>>
        /\ HourMinutes(p[1], p[2]) = HourMinutes(sl[1], sl[2])
        /\ HourMinutes(p[3], p[4]) = HourMinutes(sl[3], sl[4])

\* the range branch for one slot: the texts without spaces contain one another, or
\* the parsed ranges are equal
RangeMatch(pref_lower, text) ==
    \/ Contains(NoSpaces(pref_lower), NoSpaces(text))
    \/ Contains(NoSpaces(text), NoSpaces(pref_lower))
    \/ RangesEqual(pref_lower, text)

\* the last branch for one slot: the preference is in the text, or all its numbers are
OtherMatch(pref_lower, text) ==
    \/ Contains(pref_lower, text)
    \/ LET nums == FindAllNumbers(pref_lower)
       IN  nums # <<>> /\ \A i \in 1..Len(nums) : Contains(nums[i], text)

\* what the body of the for loop makes of slot k: "select", "keep" or "no"
SlotMatch(pref, k) ==
    LET pref_lower == Strip(Lower(pref))
        text       == Lower(time_slots[k].time_text)
        Sel(b)     == IF b THEN "select" ELSE "no"
    IN  IF time_slots[k].time_text = <<>> \/ SlotFull(k) THEN "no"
        ELSE IF pref_lower = sMorning THEN Sel(\E t \in MorningTimes : Contains(t, text))
        ELSE IF pref_lower = sAfternoon THEN Sel(\E t \in AfternoonTimes : Contains(t, text))
        ELSE IF pref_lower = sEvening THEN Sel(\E t \in EveningTimes : Contains(t, text))
        ELSE IF IsSpecificTime(pref_lower) THEN SpecificMatch(pref, text)
        ELSE IF IsTimeRange(pref_lower) THEN Sel(RangeMatch(pref_lower, text))
        ELSE Sel(OtherMatch(pref_lower, text))

\* the for loop over the slots found: the slot selected (0: none) and best_match after it
RECURSIVE ScanSlots(_, _, _, _)
ScanSlots(pref, found, i, best) ==
    IF i > Len(found) THEN [selected |-> 0, best |-> best]
    ELSE LET mt == SlotMatch(pref, found[i])
         IN  IF mt = "select" THEN [selected |-> found[i], best |-> best]
             ELSE ScanSlots(pref, found, i + 1, IF mt = "keep" /\ best = 0 THEN found[i] ELSE best)

\* without a preference: the first slot found with a time text that is not full
FirstAvailableSlot(found) ==
    LET I == {i \in 1..Len(found) : time_slots[found[i]].time_text # <<>> /\ ~SlotFull(found[i])}
    IN  IF I = {} THEN 0 ELSE found[CHOOSE i \in I : \A j \in I : i <= j]

\* slot["time_text"] of the slots found
TimeTexts(found) == {time_slots[found[i]].time_text : i \in 1..Len(found)} \ {<<>>}

\* the local variables and the screen of one _select_delivery_time call
Ts ==
    [tview |-> tview, tpc |-> tpc, time_scroll_attempts |-> time_scroll_attempts,
     seen_time_texts |-> seen_time_texts, no_new_items_count |-> no_new_items_count,
     best_match |-> best_match, timeClicked |-> timeClicked, tret |-> tret,
     tfaulted |-> tfaulted]

SetTs(t) ==
    /\ tview' = t.tview
    /\ tpc' = t.tpc
    /\ time_scroll_attempts' = t.time_scroll_attempts
    /\ seen_time_texts' = t.seen_time_texts
    /\ no_new_items_count' = t.no_new_items_count
    /\ best_match' = t.best_match
    /\ timeClicked' = t.timeClicked
    /\ tret' = t.tret
    /\ tfaulted' = t.tfaulted
    /\ UNCHANGED <<time_preference, time_slots>>

\* return {"success": False, "message": ...}
TFail(t, kind) ==
    [t EXCEPT !.tpc = "done", !.tret = [success |-> FALSE, kind |-> kind, time |-> <<>>]]

\* selected_time_viewgroup.click() and the return that follows it
ClickSlot(t, k, click) ==
    IF click = "raise" THEN TFail([t EXCEPT !.tfaulted = TRUE], "click")
    ELSE [t EXCEPT !.tpc = "done", !.timeClicked = k,
                   !.tret = [success |-> TRUE, kind |-> "selected",
                             time |-> time_slots[k].time_text]]

TimeStartEnvs == [find : {"ok", "raise"}, click : {"ok", "raise"}]

\* _select_delivery_time up to the while loop, and all of it without a preference
TimeStart(t, e) ==
    LET found == FindTimeSlots(t.tview)
        first == FirstAvailableSlot(found)
    IN  IF ~selenium_available \/ ~appium_available \/ driver = NoDriver
        THEN TFail(t, "not_connected")
        ELSE IF e.find = "raise" THEN TFail([t EXCEPT !.tfaulted = TRUE], "except")
        ELSE IF found = <<>> THEN TFail(t, "no_slots")
        ELSE IF time_preference # <<>> THEN [t EXCEPT !.tpc = "loop"]
        ELSE IF first = 0 THEN TFail(t, "none_available")
        ELSE ClickSlot(t, first, e.click)

\* what follows the while loop: best_match if nothing was selected, then the click
AfterTimeLoop(t, selected, click) ==
    LET sel == IF selected = 0 THEN t.best_match ELSE selected
    IN  IF sel = 0 THEN TFail(t, "no_match") ELSE ClickSlot(t, sel, click)

TimeLoopEnvs == [shift : TimeShifts, click : {"ok", "raise"}]

\* the pass as it would be without the test of no_new_items_count
TimeLoopStepNoEnd(t, e, found, scan) ==
    LET new_items == TimeTexts(found) \ t.seen_time_texts
        t1        == [t EXCEPT !.best_match = scan.best,
                               !.seen_time_texts = @ \cup TimeTexts(found)]
        count     == IF new_items = {} THEN t.no_new_items_count + 1 ELSE 0
        v         == ScrollSlots(t.tview, e.shift)
        t2        == [t1 EXCEPT !.no_new_items_count = count, !.tview = v,
                                !.time_scroll_attempts = @ + 1]
    IN  IF t.time_scroll_attempts >= max_time_scroll_attempts
        THEN AfterTimeLoop(t, 0, e.click)
        ELSE IF scan.selected # 0 THEN AfterTimeLoop(t1, scan.selected, e.click)
        ELSE IF scan.best # 0 /\ IsSpecificTime(Strip(Lower(time_preference)))
        THEN AfterTimeLoop(t1, scan.best, e.click)
        ELSE IF FindTimeSlots(v) = <<>> THEN AfterTimeLoop(t2, 0, e.click)
        ELSE t2

\* one pass of the while loop of _select_delivery_time, with what follows the loop when
\* the pass leaves it
TimeLoopStepWith(t, e, found, scan) ==
    LET new_items == TimeTexts(found) \ t.seen_time_texts
        t1        == [t EXCEPT !.best_match = scan.best,
                               !.seen_time_texts = @ \cup TimeTexts(found)]
        count     == IF new_items = {} THEN t.no_new_items_count + 1 ELSE 0
        v         == ScrollSlots(t.tview, e.shift)
        t2        == [t1 EXCEPT !.no_new_items_count = count, !.tview = v,
                                !.time_scroll_attempts = @ + 1]
    IN  IF t.time_scroll_attempts >= max_time_scroll_attempts
        THEN AfterTimeLoop(t, 0, e.click)
        ELSE IF scan.selected # 0 THEN AfterTimeLoop(t1, scan.selected, e.click)
        ELSE IF scan.best # 0 /\ IsSpecificTime(Strip(Lower(time_preference)))
        THEN AfterTimeLoop(t1, scan.best, e.click)
        ELSE IF new_items = {} /\ count >= end_of_list_count
        THEN AfterTimeLoop([t1 EXCEPT !.no_new_items_count = count], 0, e.click)
        ELSE IF FindTimeSlots(v) = <<>> THEN AfterTimeLoop(t2, 0, e.click)
        ELSE t2

TimeLoopStep(t, e) ==
    One({ TimeLoopStepWith(t, e, found, scan)
          : found \in {FindTimeSlots(t.tview)},
            scan \in {ScanSlots(time_preference, FindTimeSlots(t.tview), 1, t.best_match)} })

(***************************************************************************)
(* SpecSlot: one call of _select_delivery_time                             *)
(***************************************************************************)
\* the most items of a time list
MaxSlots == 3

Range(a, b) == a \o <<"-">> \o b

OpenSlot(range) == [slot |-> TRUE, time_text |-> range, text |-> range, desc |-> <<>>]

FullSlot(range) ==
    [slot |-> TRUE, time_text |-> range, text |-> range \o <<" ", "F", "u", "l", "l">>,
     desc |-> <<>>]

\* the wplus_signup_card of the list, which holds no time
PromoCard == [slot |-> FALSE, time_text |-> <<>>, text |-> <<>>, desc |-> <<>>]

SlotRanges ==
    { Range(ClockText(6, AM), ClockText(8, AM)),
      Range(ClockText(6, AM), ClockText(9, AM)),
      Range(ClockText(7, AM), ClockText(9, AM)),
      Range(ClockText(8, AM), ClockText(10, AM)),
      Range(ClockText(12, PM), ClockText(4, PM)),
      Range(ClockText(2, PM), ClockText(4, PM)),
      Range(ClockText(9, PM), ClockText(11, PM)) }

SlotKinds ==
    {OpenSlot(r) : r \in SlotRanges}
        \cup {FullSlot(Range(ClockText(7, AM), ClockText(9, AM))), PromoCard}

\* None, "8am", "2pm-4pm", "2pm to 4pm", "Morning", "afternoon", "8"
TimePreferences ==
    { <<>>, ClockText(8, AM), Range(ClockText(2, PM), ClockText(4, PM)),
      ClockText(2, PM) \o To \o ClockText(4, PM),
      <<"M", "o", "r", "n", "i", "n", "g">>, sAfternoon, <<"8">> }

\* a time list of more items than the scrolls of one call can pass, each with a label
\* of its own
LongTimeList ==
    [k \in 1..(max_time_scroll_attempts + TimeWindow + 1) |->
        OpenSlot(Range(ClockText(1 + ((k - 1) \div 12), AM), ClockText(1 + ((k - 1) % 12), AM)))]

TimeLists == SeqsUpTo(SlotKinds, MaxSlots) \cup {LongTimeList}

NoTimeReturn == [success |-> FALSE, kind |-> "none", time |-> <<>>]

InitSlot ==
    /\ time_preference \in TimePreferences
    /\ time_slots \in TimeLists
    /\ tview = 1
    /\ tpc = "start"
    /\ time_scroll_attempts = 0
    /\ seen_time_texts = {}
    /\ no_new_items_count = 0
    /\ best_match = 0
    /\ timeClicked = 0
    /\ tret = NoTimeReturn
    /\ tfaulted = FALSE
    /\ \E s \in {s \in SvcStarts : s.connected = (s.driver # NoDriver)} :
          /\ driver = s.driver
          /\ connected = s.connected
          /\ created = s.created
          /\ live = s.live
    /\ appium_available = TRUE
    /\ selenium_available = TRUE
    /\ IdleTime
    /\ IdleCall
    /\ IdleBatch
    /\ IdleReorder
    /\ IdlePlace
    /\ IdleResolve
    /\ IdleClick
    /\ IdleFlow
    /\ IdleServe
    /\ IdleCombo
    /\ IdleIntent
    /\ IdleCart

DoTimeStart ==
    /\ tpc = "start"
    /\ \E e \in TimeStartEnvs : \E t \in {TimeStart(Ts, e)} : SetTs(t)
    /\ UNCHANGED <<svcVars, offSlot>>

DoTimeLoopStep ==
    /\ tpc = "loop"
    /\ \E e \in TimeLoopEnvs : \E t \in {TimeLoopStep(Ts, e)} : SetTs(t)
    /\ UNCHANGED <<svcVars, offSlot>>

NextSlot ==
    \/ DoTimeStart
    \/ DoTimeLoopStep

SpecSlot == InitSlot /\ [][NextSlot]_vars

(***************************************************************************)
(* What the slots and the preferences mean, stated without the parsers     *)
(***************************************************************************)
\* <<start, end>> in minutes of a range text "<clock>-<clock>" or "<clock> to <clock>"
RefSpan(range) ==
    LET ab == CHOOSE ab \in ClockTexts \X ClockTexts :
                  range = Range(ab[1], ab[2]) \/ range = ab[1] \o To \o ab[2]
    IN  <<RefMinutes(ab[1]), RefMinutes(ab[2])>>

SlotSpan(k) == RefSpan(time_slots[k].time_text)

\* every item of the time list is a slot with a range that is not full
AllOpenRanged == \A k \in 1..Len(time_slots) : time_slots[k] \in {OpenSlot(r) : r \in SlotRanges}

\* twice the distance of minute t from the midpoint of slot k
MidDistance2(t, k) ==
    LET d == 2 * t - (SlotSpan(k)[1] + SlotSpan(k)[2])
    IN  IF d < 0 THEN 0 - d ELSE d

StrictSlots(t) == {k \in 1..Len(time_slots) : SlotSpan(k)[1] < t /\ t < SlotSpan(k)[2]}

InclusiveSlots(t) == {k \in 1..Len(time_slots) : SlotSpan(k)[1] <= t /\ t <= SlotSpan(k)[2]}

\* a call with a clock-time preference on a list of open, ranged slots that fits the
\* screen has returned, no driver call having failed
SpecificCallDone ==
    /\ tpc = "done"
    /\ ~tfaulted
    /\ driver # NoDriver
    /\ time_preference \in ClockTexts
    /\ AllOpenRanged
    /\ Len(time_slots) \in 1..TimeWindow

\* C12: for a single clock time against a list of ranged, available slots,
\* _select_delivery_time selects, among the slots whose range strictly contains the time,
\* the one whose midpoint is closest to the time; if no slot strictly contains the time it
\* selects the first slot whose range contains the time inclusively.
C12_ClosestMidpointOrInclusive ==
    SpecificCallDone =>
        LET t == RefMinutes(time_preference)
        IN  IF StrictSlots(t) # {}
            THEN /\ timeClicked \in StrictSlots(t)
                 /\ \A j \in StrictSlots(t) : MidDistance2(t, timeClicked) <= MidDistance2(t, j)
            ELSE InclusiveSlots(t) # {} =>
                     /\ timeClicked \in InclusiveSlots(t)
                     /\ \A j \in InclusiveSlots(t) : timeClicked <= j

\* what the code selects for a clock time: the first slot that strictly contains it and
\* has its midpoint nearer to it than its ends, else the first slot that strictly
\* contains it, else nothing
C12_FirstStrictSlot ==
    SpecificCallDone =>
        LET t    == RefMinutes(time_preference)
            near == {k \in StrictSlots(t) : /\ MidDistance2(t, k) < 2 * (t - SlotSpan(k)[1])
                                            /\ MidDistance2(t, k) < 2 * (SlotSpan(k)[2] - t)}
            pick == IF near # {} THEN near ELSE StrictSlots(t)
        IN  IF pick = {} THEN ~tret.success /\ timeClicked = 0
            ELSE timeClicked \in pick /\ \A j \in pick : timeClicked <= j

\* the range preferences of the inputs
RangePreferences == {pr \in TimePreferences : Contains(Dash, pr) \/ Contains(To, pr)}

\* C13: for an explicit range preference, _select_delivery_time selects a slot only if the
\* slot's start and end both equal the preference's start and end; a slot whose range only
\* overlaps or textually contains the preference is never selected.
C13_RangeMatchesExactly ==
    (tpc = "done" /\ time_preference \in RangePreferences /\ timeClicked # 0) =>
        SlotSpan(timeClicked) = RefSpan(time_preference)

\* C13 for a range preference written with the word "to": what the code does do
C13_ToSpellingMatchesExactly ==
    Contains(To, time_preference) => C13_RangeMatchesExactly

(***************************************************************************)
(* The element resolver (automation.py, find_element_by_selector, 196-228, *)
(* 1212, 1506-1538, 1616, 1982, 2303: the same body in every flow)         *)
(***************************************************************************)
\* the strategies in the order the resolver goes through them
Strategies == <<"uiselector", "xpath", "resource_id">>

\* the selector configured for the i-th strategy
SelectorOf(i) == <<uiselector, xpath, resource_id>>[i]

\* a resolver that gives up when a configured strategy fails
RECURSIVE FindElementNoFallback(_, _)
FindElementNoFallback(i, q) ==
    IF i > Len(Strategies) THEN [element |-> "", queried |-> q, raised |-> TRUE]
    ELSE IF SelectorOf(i) = "" THEN FindElementNoFallback(i + 1, q)
    ELSE IF Strategies[i] \in located
         THEN [element |-> Strategies[i], queried |-> Append(q, Strategies[i]), raised |-> FALSE]
         ELSE [element |-> "", queried |-> Append(q, Strategies[i]), raised |-> TRUE]

\* find_element_by_selector from its i-th strategy on, q being the strategies queried so
\* far: a strategy with an empty selector is passed over, the first one whose wait.until
\* returns gives the element, and past the last one the resolver raises
RECURSIVE FindElementBySelector(_, _)
FindElementBySelector(i, q) ==
    IF i > Len(Strategies) THEN [element |-> "", queried |-> q, raised |-> TRUE]
    ELSE IF SelectorOf(i) = "" THEN FindElementBySelector(i + 1, q)
    ELSE IF Strategies[i] \in located
         THEN [element |-> Strategies[i], queried |-> Append(q, Strategies[i]), raised |-> FALSE]
         ELSE FindElementBySelector(i + 1, Append(q, Strategies[i]))

(***************************************************************************)
(* SpecResolve: one element lookup, by find_element_by_selector or by the  *)
(* waits at the start of _add_first_result_to_cart (425-453)               *)
(***************************************************************************)
InitResolve ==
    /\ uiselector \in {"", "new UiSelector().resourceId(...)"}
    /\ xpath \in {"", "//android.widget.Button"}
    /\ resource_id \in {"", "com.walmart.android:id/button"}
    /\ by_type \in {"clickable", "presence"}
    /\ located \in SUBSET {Strategies[i] : i \in 1..Len(Strategies)}
    /\ fpc = "call"
    /\ queried = <<>>
    /\ element = ""
    /\ raised = FALSE
    /\ IdleSvc
    /\ IdleOffPlace
    /\ IdlePlace
    /\ IdleSlot
    /\ IdleClick
    /\ IdleFlow
    /\ IdleServe
    /\ IdleCombo
    /\ IdleIntent
    /\ IdleCart

CallFindElementBySelector ==
    /\ fpc = "call"
    /\ \E r \in {FindElementBySelector(1, <<>>)} :
          /\ element' = r.element
          /\ queried' = r.queried
          /\ raised' = r.raised
    /\ fpc' = "done"
    /\ UNCHANGED <<uiselector, xpath, resource_id, by_type, located>>
    /\ UNCHANGED <<svcVars, offResolve>>

\* the lookups at the start of _add_first_result_to_cart: the XPath is waited for, whatever
\* it is, and when that wait raises the resource id is, whatever it is; an empty selector
\* finds nothing
DirectLookup ==
    IF xpath # "" /\ "xpath" \in located
    THEN [element |-> "xpath", queried |-> <<"xpath">>]
    ELSE IF resource_id # "" /\ "resource_id" \in located
    THEN [element |-> "resource_id", queried |-> <<"xpath", "resource_id">>]
    ELSE [element |-> "", queried |-> <<"xpath", "resource_id">>]

\* product_list: without it the call returns STEP 1 FAILED
LookupProductList ==
    /\ fpc = "call"
    /\ uiselector = ""
    /\ by_type = "presence"
    /\ \E r \in {DirectLookup} :
          /\ element' = r.element
          /\ queried' = r.queried
          /\ raised' = (r.element = "")
    /\ fpc' = "product_list"
    /\ UNCHANGED <<uiselector, xpath, resource_id, by_type, located>>
    /\ UNCHANGED <<svcVars, offResolve>>

\* products_recycler: without it the call goes on
LookupProductsRecycler ==
    /\ fpc = "call"
    /\ uiselector = ""
    /\ by_type = "presence"
    /\ \E r \in {DirectLookup} :
          /\ element' = r.element
          /\ queried' = r.queried
    /\ raised' = FALSE
    /\ fpc' = "products_recycler"
    /\ UNCHANGED <<uiselector, xpath, resource_id, by_type, located>>
    /\ UNCHANGED <<svcVars, offResolve>>

NextResolve ==
    \/ CallFindElementBySelector
    \/ LookupProductList
    \/ LookupProductsRecycler

SpecResolve == InitResolve /\ [][NextResolve]_vars

\* the configured strategies, in the resolver's order
Configured == SelectSeq(Strategies, LAMBDA st : \E i \in 1..3 : Strategies[i] = st /\ SelectorOf(i) # "")

\* C14: find_element_by_selector tries the configured strategies in the order UiSelector,
\* XPath, resource id and returns the element of the first one that succeeds: if the
\* first fails and the second succeeds it returns the second's element, does not query
\* the third and does not raise; it raises only when every configured strategy failed.
C14_FirstSuccessfulStrategy ==
    fpc = "done" =>
        /\ queried = SubSeq(Configured, 1, Len(queried))
        /\ raised = (\A i \in 1..Len(Configured) : Configured[i] \notin located)
        /\ raised => queried = Configured /\ element = ""
        /\ ~raised =>
              /\ element = queried[Len(queried)]
              /\ element \in located
              /\ \A i \in 1..(Len(queried) - 1) : queried[i] \notin located

\* the UiSelector failed, the XPath found the element: it is returned and the resource id
\* is not queried
C14_Witness ==
    /\ fpc = "done"
    /\ resource_id # ""
    /\ "resource_id" \in located
    /\ queried = <<"uiselector", "xpath">>
    /\ element = "xpath"
    /\ ~raised

(***************************************************************************)
(* Scroll into view and click (automation.py, find_and_click_element,      *)
(* 501-629).  Heights and positions are in pixels.                         *)
(***************************************************************************)
\* max_scroll_attempts of the scroll-into-view loop
max_scroll_attempts_into_view == 5

margin == 50

\* screen_size['height']
ScreenPx == 400

screen_top == margin

screen_bottom == ScreenPx - margin

\* the test that lets the element pass only when it is clear of both margin lines
FullyVisibleStrict(top, height) == top > screen_top /\ top + height < screen_bottom

\* "button is fully visible (top and bottom within screen bounds)"
FullyVisible(top, height) == top >= screen_top /\ top + height <= screen_bottom

\* the positions a list item can be found at: above, on and below the screen
ButtonTops == {0 - 100, 0, margin, 150, screen_bottom - 50, screen_bottom, ScreenPx + 100}

\* an element of the height of a button, a product tile that fits between the margins with
\* less than a margin to spare, and an element taller than the screen
ButtonHeights == {50, ScreenPx - 2 * margin - 20, ScreenPx}

Cs ==
    [button_top_y |-> button_top_y, cpc |-> cpc, scroll_attempt |-> scroll_attempt,
     swipes |-> swipes, handle |-> handle, first_top_y |-> first_top_y,
     clickTried |-> clickTried, clickHandle |-> clickHandle, clickFailed |-> clickFailed,
     cret |-> cret, refound_with |-> refound_with, handle_swipes |-> handle_swipes,
     went_up |-> went_up, went_down |-> went_down, last_length |-> last_length,
     last_need |-> last_need]

SetCs(c) ==
    /\ button_top_y' = c.button_top_y
    /\ cpc' = c.cpc
    /\ scroll_attempt' = c.scroll_attempt
    /\ swipes' = c.swipes
    /\ handle' = c.handle
    /\ first_top_y' = c.first_top_y
    /\ clickTried' = c.clickTried
    /\ clickHandle' = c.clickHandle
    /\ clickFailed' = c.clickFailed
    /\ cret' = c.cret
    /\ refound_with' = c.refound_with
    /\ handle_swipes' = c.handle_swipes
    /\ went_up' = c.went_up
    /\ went_down' = c.went_down
    /\ last_length' = c.last_length
    /\ last_need' = c.last_need
    /\ UNCHANGED <<button_height, scroll_into_view, locator, in_ad, list_follows>>

CReturn(c, ok, msg) == [c EXCEPT !.cpc = "done", !.cret = [ok |-> ok, msg |-> msg]]

\* what the driver answers up to the loop: the presence wait, the ancestor query for the ad
\* container, the ancestor query for the product tile
LocateEnvs ==
    [found : BOOLEAN, ad_query : {"ok", "raise"}, tile_query : {"inside", "outside", "raise"},
     quantitystepper : BOOLEAN]

\* find_and_click_element up to the loop: the element is located and checked against the
\* ad container and, for a quantitystepper resource id, the product tile; a raising query
\* ends the checks
LocateStep(c, e) ==
    IF ~e.found THEN CReturn(c, FALSE, "Element not found")
    ELSE IF e.ad_query = "ok" /\ in_ad THEN CReturn(c, FALSE, "Element is inside ad_container")
    ELSE IF /\ e.ad_query = "ok"
            /\ locator = "resource_id"
            /\ e.quantitystepper
            /\ e.tile_query = "outside"
    THEN CReturn(c, FALSE, "quantitystepper_root not inside product_tile_list_view")
    ELSE [c EXCEPT !.handle = 1, !.first_top_y = c.button_top_y,
                   !.cpc = IF scroll_into_view THEN "loop" ELSE "click"]

ScrollEnvs == [read : {"ok", "raise"}, swipe : {"ok", "raise"}, top : ButtonTops, refind : {"ok", "lost"}]

MinOf(a, b) == IF a <= b THEN a ELSE b

\* ten times scroll_amount = min(delta + margin, screen_size['height'] * 0.5)
ScrollAmount10(need) == MinOf(10 * (need + margin), 5 * ScreenPx)

\* the swipe towards the top: from int(height * 0.7) to int(height * 0.7 - scroll_amount)
SwipeUpLength(need) == ((7 * ScreenPx) \div 10) - ((7 * ScreenPx - ScrollAmount10(need)) \div 10)

\* the swipe towards the bottom: from int(height * 0.3) to int(height * 0.3 + scroll_amount)
SwipeDownLength(need) == ((3 * ScreenPx + ScrollAmount10(need)) \div 10) - ((3 * ScreenPx) \div 10)

\* the strategy of the re-find: if xpath ... elif uiselector ... elif resource_id
RefindStrategy(xpath_, uiselector_, resource_id_) ==
    IF xpath_ THEN "xpath" ELSE IF uiselector_ THEN "uiselector"
    ELSE IF resource_id_ THEN "resource_id" ELSE ""

\* the swipe of one pass: towards the top when the bottom edge is below the lower margin
\* line, else towards the bottom; a list that follows moves the element by its length
SwipeIssued(c, free_top) ==
    IF c.button_top_y + button_height > screen_bottom
    THEN LET need == c.button_top_y + button_height - screen_bottom
         IN  [c EXCEPT !.swipes = @ + 1, !.went_up = TRUE, !.last_need = need,
                       !.last_length = SwipeUpLength(need),
                       !.button_top_y = IF list_follows THEN @ - SwipeUpLength(need) ELSE free_top]
    ELSE LET need == screen_top - c.button_top_y
         IN  [c EXCEPT !.swipes = @ + 1, !.went_down = TRUE, !.last_need = need,
                       !.last_length = SwipeDownLength(need),
                       !.button_top_y = IF list_follows THEN @ + SwipeDownLength(need) ELSE free_top]

\* the loop that counts a pass only when the element has not moved
ScrollStepUncounted(c, e) ==
    IF e.read = "raise" \/ FullyVisible(c.button_top_y, button_height) THEN [c EXCEPT !.cpc = "click"]
    ELSE [c EXCEPT !.swipes = @ + 1, !.button_top_y = e.top, !.handle = @ + 1,
                   !.scroll_attempt = IF e.top = c.button_top_y THEN @ + 1 ELSE @,
                   !.cpc = IF e.top = c.button_top_y /\ c.scroll_attempt + 1 >= max_scroll_attempts_into_view
                           THEN "click" ELSE "loop"]

\* one pass of the scroll-into-view loop: the element's place is read; if it is not between
\* the margins one swipe is issued, the pass is counted and the element is fetched again
ScrollStep(c, e) ==
    IF e.read = "raise" \/ FullyVisible(c.button_top_y, button_height) THEN [c EXCEPT !.cpc = "click"]
    ELSE IF e.swipe = "raise" THEN [c EXCEPT !.swipes = @ + 1, !.cpc = "click"]
    ELSE LET c1 == [SwipeIssued(c, e.top) EXCEPT
                       !.scroll_attempt = @ + 1,
                       !.refound_with = RefindStrategy(locator = "xpath", locator = "uiselector",
                                                       locator = "resource_id")]
         IN  IF e.refind = "lost" THEN [c1 EXCEPT !.cpc = "click"]
             ELSE [c1 EXCEPT !.handle = @ + 1, !.handle_swipes = c1.swipes,
                             !.cpc = IF c1.scroll_attempt < max_scroll_attempts_into_view
                                     THEN "loop" ELSE "click"]

\* wait.until(EC.element_to_be_clickable(element)), click, return
ClickStep(c, click) ==
    LET c1 == [c EXCEPT !.clickTried = TRUE, !.clickHandle = c.handle]
    IN  IF click = "ok" THEN CReturn(c1, TRUE, "Success")
        ELSE CReturn([c1 EXCEPT !.clickFailed = TRUE], FALSE, "Element found but not clickable")

(***************************************************************************)
(* SpecClick: one call of find_and_click_element                           *)
(***************************************************************************)
InitClick ==
    /\ button_top_y \in ButtonTops
    /\ button_height \in ButtonHeights
    /\ scroll_into_view \in BOOLEAN
    /\ cpc = "locate"
    /\ scroll_attempt = 0
    /\ swipes = 0
    /\ handle = 0
    /\ first_top_y = 0
    /\ clickTried = FALSE
    /\ clickHandle = 0
    /\ clickFailed = FALSE
    /\ cret = [ok |-> FALSE, msg |-> "none"]
    /\ locator \in {"xpath", "uiselector", "resource_id"}
    /\ in_ad \in BOOLEAN
    /\ list_follows \in BOOLEAN
    /\ refound_with = ""
    /\ handle_swipes = 0
    /\ went_up = FALSE
    /\ went_down = FALSE
    /\ last_length = 0
    /\ last_need = 0
    /\ IdleSvc
    /\ IdleOffPlace
    /\ IdlePlace
    /\ IdleSlot
    /\ IdleResolve
    /\ IdleFlow
    /\ IdleServe
    /\ IdleCombo
    /\ IdleIntent
    /\ IdleCart

DoLocateStep ==
    /\ cpc = "locate"
    /\ \E e \in LocateEnvs : SetCs(LocateStep(Cs, e))
    /\ UNCHANGED <<svcVars, offClick>>

DoScrollStep ==
    /\ cpc = "loop"
    /\ \E e \in ScrollEnvs : SetCs(ScrollStep(Cs, e))
    /\ UNCHANGED <<svcVars, offClick>>

DoClickStep ==
    /\ cpc = "click"
    /\ \E click \in {"ok", "raise"} : SetCs(ClickStep(Cs, click))
    /\ UNCHANGED <<svcVars, offClick>>

NextClick ==
    \/ DoLocateStep
    \/ DoScrollStep
    \/ DoClickStep

SpecClick == InitClick /\ [][NextClick]_vars

\* C15: when the located element's top is at or below the 50px margin and its bottom at or
\* above the screen height minus the margin, the scroll-into-view loop of
\* find_and_click_element issues no swipe before the click.
C15_NoSwipeWhenWithinMargins ==
    (/\ handle # 0
     /\ first_top_y >= margin
     /\ first_top_y + button_height <= ScreenPx - margin) => swipes = 0

\* an element whose bottom lies on the lower margin line was clicked without a swipe
C15_Witness ==
    /\ cpc = "done"
    /\ scroll_into_view
    /\ first_top_y + button_height = ScreenPx - margin
    /\ clickTried
    /\ cret.ok
    /\ swipes = 0

\* C16: the scroll-into-view loop issues at most 5 swipes per call whatever positions the
\* element takes; once the element was located and passed the checks, the click is
\* attempted on the handle fetched last, also when the element is still outside the
\* margins after 5 swipes, and a failing click is returned as a failure.
C16_AtMostFiveSwipesThenClick ==
    /\ swipes <= 5
    /\ swipes <= max_scroll_attempts_into_view
    /\ (cpc = "done" /\ handle # 0) => clickTried /\ clickHandle = handle
    /\ clickFailed => ~cret.ok /\ cret.msg = "Element found but not clickable"
    /\ (cpc = "done" /\ cret.ok) => clickTried /\ ~clickFailed

\* after 5 swipes the element is still outside the margins; the click was tried and its
\* failure returned
C16_Witness ==
    /\ cpc = "done"
    /\ swipes = 5
    /\ ~FullyVisible(button_top_y, button_height)
    /\ clickTried
    /\ clickFailed
    /\ ~cret.ok

(***************************************************************************)
(* The loops of the flows (automation.py: reorder_last_order 802-1180,     *)
(* place_order with _select_delivery_date 1693-1769 and                    *)
(* _select_delivery_time 2093-2244, set_address_and_delivery 1390-1443,    *)
(* add_items_to_cart_structured with _add_first_result_to_cart 501-712).   *)
(*                                                                         *)
(* Here the UI is free: every driver call returns whichever of its         *)
(* outcomes it will, or raises; what is kept of each flow is its loops,    *)
(* their counters and their exits.                                         *)
(***************************************************************************)
max_name_scroll_attempts == 8

max_reorder_scroll_attempts == 5

max_address_scroll_attempts == 20

\* the lookups of the add-to-cart control: scoped XPath, XPath, UiSelector, resource id
add_to_cart_lookups == 4

\* the most order cards one fetch returns
MaxCards == 2

\* the largest quantity of an item
MaxQuantity == 3

Operations ==
    {"reorder_last_order", "place_order", "set_address_and_delivery", "add_items_to_cart_structured"}

Lf ==
    [op |-> op, lpc |-> lpc, outer |-> outer, inner |-> inner, quiet |-> quiet,
     cards_left |-> cards_left, found_card |-> found_card, items_left |-> items_left,
     tries_left |-> tries_left, plus_left |-> plus_left]

SetLf(l) ==
    /\ lpc' = l.lpc
    /\ outer' = l.outer
    /\ inner' = l.inner
    /\ quiet' = l.quiet
    /\ cards_left' = l.cards_left
    /\ found_card' = l.found_card
    /\ items_left' = l.items_left
    /\ tries_left' = l.tries_left
    /\ plus_left' = l.plus_left
    /\ UNCHANGED op

\* the operation returns its result dictionary
Returned(l) == [l EXCEPT !.lpc = "returned"]

At(l, pc) == [l EXCEPT !.lpc = pc]

\* a pass that leaves the counter as it is
Uncounted(n) == n

\* attempt += 1, scroll_attempt += 1, scroll_attempts += 1, reorder_scroll_attempt += 1
Counted(n) == n + 1

\* the checks every operation starts with, then its steps up to its first loop
FlowCall(l, ok) ==
    IF ~ok THEN Returned(l)
    ELSE At(l, CASE l.op = "reorder_last_order" -> "while"
                 [] l.op = "place_order" -> "date"
                 [] l.op = "set_address_and_delivery" -> "radio"
                 [] OTHER -> "item")

\* reorder_last_order, the head of the while loop and the fetch of the order cards
ReorderWhile(l, cards) ==
    IF l.outer >= max_attempts \/ cards = 0 THEN Returned(l)
    ELSE [l EXCEPT !.lpc = "for", !.cards_left = cards, !.found_card = FALSE]

\* the per-card exception handler, and the return to the history after a mismatch
NextAttempt(l) == [l EXCEPT !.outer = Counted(@), !.found_card = TRUE, !.lpc = "while"]

\* reorder_last_order, the for loop over the cards fetched and what follows it
ReorderFor(l, e) ==
    IF l.cards_left = 0
    THEN IF l.found_card THEN At(l, "while")
         ELSE IF e = "raise" THEN Returned(l)
         ELSE [l EXCEPT !.outer = Counted(@), !.lpc = "while"]
    ELSE CASE e = "pass" -> [l EXCEPT !.cards_left = @ - 1]
           [] e = "skip" -> [l EXCEPT !.cards_left = @ - 1, !.outer = Counted(@), !.found_card = TRUE]
           [] e = "carousel" -> [l EXCEPT !.cards_left = @ - 1, !.outer = Counted(@)]
           [] e = "open" -> [l EXCEPT !.lpc = "name", !.inner = 0]
           [] OTHER -> NextAttempt(l)

\* reorder_last_order, the loop that scrolls the order details to the customer name
ReorderName(l, e) ==
    IF l.inner >= max_name_scroll_attempts THEN NextAttempt(l)
    ELSE CASE e = "match" -> [l EXCEPT !.lpc = "button", !.inner = 0]
           [] e = "unseen" -> [l EXCEPT !.inner = Counted(@)]
           [] OTHER -> NextAttempt(l)

\* reorder_last_order, the loop that scrolls to the reorder control, and the click
ReorderButton(l, e) ==
    IF l.inner >= max_reorder_scroll_attempts
    THEN IF e = "raise" THEN NextAttempt(l) ELSE Returned(l)
    ELSE CASE e = "visible" -> Returned(l)
           [] e = "hidden" -> [l EXCEPT !.inner = Counted(@)]
           [] OTHER -> NextAttempt(l)

\* _select_delivery_date, one pass of its loop
PlaceDate(l, e) ==
    IF l.inner >= max_scroll_attempts THEN Returned(l)
    ELSE CASE e = "selected" -> [l EXCEPT !.lpc = "time", !.inner = 0, !.quiet = 0]
           [] e = "unseen" -> [l EXCEPT !.inner = Counted(@)]
           [] OTHER -> Returned(l)

\* _select_delivery_time, one pass of its loop
PlaceTime(l, e) ==
    IF l.inner >= max_time_scroll_attempts THEN Returned(l)
    ELSE CASE e = "selected" -> At(l, "reserve")
           [] e = "new" -> [l EXCEPT !.quiet = 0, !.inner = Counted(@)]
           [] e = "same" -> IF l.quiet + 1 >= end_of_list_count THEN Returned(l)
                            ELSE [l EXCEPT !.quiet = @ + 1, !.inner = Counted(@)]
           [] OTHER -> Returned(l)

\* set_address_and_delivery, one pass of the loop over the address radio buttons
AddressRadio(l, e) ==
    IF l.inner >= max_address_scroll_attempts THEN Returned(l)
    ELSE CASE e = "found" -> At(l, "save")
           [] e = "unseen" -> [l EXCEPT !.inner = Counted(@)]
           [] OTHER -> Returned(l)

\* add_items_to_cart_structured, the head of the for loop, the name check and search_item
AddItem(l, e) ==
    IF l.items_left = 0 THEN Returned(l)
    ELSE IF e = "searched" THEN [l EXCEPT !.lpc = "locate", !.tries_left = add_to_cart_lookups]
    ELSE [l EXCEPT !.items_left = @ - 1]

\* _add_first_result_to_cart, one lookup of the add-to-cart control
AddLocate(l, e) ==
    IF l.tries_left = 0 THEN [l EXCEPT !.items_left = @ - 1, !.lpc = "item"]
    ELSE IF e = "found" THEN [l EXCEPT !.lpc = "view", !.inner = 0]
    ELSE [l EXCEPT !.tries_left = @ - 1]

\* find_and_click_element, one pass of the scroll-into-view loop, and the click
AddView(l, e, quantity_1) ==
    IF l.inner < max_scroll_attempts_into_view /\ e = "outside" THEN [l EXCEPT !.inner = Counted(@)]
    ELSE IF e = "click_raise" THEN [l EXCEPT !.tries_left = @ - 1, !.lpc = "locate"]
    ELSE [l EXCEPT !.lpc = "plus", !.plus_left = quantity_1]

\* _add_first_result_to_cart, for i in range(quantity - 1): plus_button.click()
AddPlus(l, e) ==
    IF l.plus_left = 0 \/ e = "raise" THEN [l EXCEPT !.items_left = @ - 1, !.lpc = "item"]
    ELSE [l EXCEPT !.plus_left = @ - 1]

(***************************************************************************)
(* SpecFlows: one invocation of one of the four operations, the UI free;   *)
(* SpecFlowsLive adds that an operation that can take a step takes one     *)
(***************************************************************************)
InitFlows ==
    /\ op \in Operations
    /\ lpc = "call"
    /\ outer = 0
    /\ inner = 0
    /\ quiet = 0
    /\ cards_left = 0
    /\ found_card = FALSE
    /\ items_left \in IF op = "add_items_to_cart_structured" THEN 0..MaxItems ELSE {0}
    /\ tries_left = 0
    /\ plus_left = 0
    /\ IdleSvc
    /\ IdleOffPlace
    /\ IdlePlace
    /\ IdleSlot
    /\ IdleResolve
    /\ IdleClick
    /\ IdleServe
    /\ IdleCombo
    /\ IdleIntent
    /\ IdleCart

DoFlowCall ==
    /\ lpc = "call"
    /\ \E ok \in BOOLEAN : SetLf(FlowCall(Lf, ok))
    /\ UNCHANGED <<svcVars, offFlow>>

DoReorderWhile ==
    /\ lpc = "while"
    /\ \E cards \in 0..MaxCards : SetLf(ReorderWhile(Lf, cards))
    /\ UNCHANGED <<svcVars, offFlow>>

DoReorderFor ==
    /\ lpc = "for"
    /\ \E e \in {"pass", "skip", "carousel", "open", "raise"} : SetLf(ReorderFor(Lf, e))
    /\ UNCHANGED <<svcVars, offFlow>>

DoReorderName ==
    /\ lpc = "name"
    /\ \E e \in {"match", "mismatch", "unseen", "raise"} : SetLf(ReorderName(Lf, e))
    /\ UNCHANGED <<svcVars, offFlow>>

DoReorderButton ==
    /\ lpc = "button"
    /\ \E e \in {"visible", "hidden", "raise"} : SetLf(ReorderButton(Lf, e))
    /\ UNCHANGED <<svcVars, offFlow>>

DoPlaceDate ==
    /\ lpc = "date"
    /\ \E e \in {"selected", "unseen", "none", "raise"} : SetLf(PlaceDate(Lf, e))
    /\ UNCHANGED <<svcVars, offFlow>>

DoPlaceTime ==
    /\ lpc = "time"
    /\ \E e \in {"selected", "new", "same", "empty", "raise"} : SetLf(PlaceTime(Lf, e))
    /\ UNCHANGED <<svcVars, offFlow>>

DoPlaceReserve ==
    /\ lpc = "reserve"
    /\ SetLf(Returned(Lf))
    /\ UNCHANGED <<svcVars, offFlow>>

DoAddressRadio ==
    /\ lpc = "radio"
    /\ \E e \in {"found", "unseen", "none", "raise"} : SetLf(AddressRadio(Lf, e))
    /\ UNCHANGED <<svcVars, offFlow>>

DoAddressSave ==
    /\ lpc = "save"
    /\ SetLf(Returned(Lf))
    /\ UNCHANGED <<svcVars, offFlow>>

DoAddItem ==
    /\ lpc = "item"
    /\ \E e \in {"bad_name", "search_failed", "searched"} : SetLf(AddItem(Lf, e))
    /\ UNCHANGED <<svcVars, offFlow>>

DoAddLocate ==
    /\ lpc = "locate"
    /\ \E e \in {"found", "not_found", "ad_container"} : SetLf(AddLocate(Lf, e))
    /\ UNCHANGED <<svcVars, offFlow>>

DoAddView ==
    /\ lpc = "view"
    /\ \E e \in {"outside", "visible", "lost", "click_raise"}, q \in 1..MaxQuantity :
          SetLf(AddView(Lf, e, q - 1))
    /\ UNCHANGED <<svcVars, offFlow>>

DoAddPlus ==
    /\ lpc = "plus"
    /\ \E e \in {"ok", "raise"} : SetLf(AddPlus(Lf, e))
    /\ UNCHANGED <<svcVars, offFlow>>

NextFlows ==
    \/ DoFlowCall
    \/ DoReorderWhile
    \/ DoReorderFor
    \/ DoReorderName
    \/ DoReorderButton
    \/ DoPlaceDate
    \/ DoPlaceTime
    \/ DoPlaceReserve
    \/ DoAddressRadio
    \/ DoAddressSave
    \/ DoAddItem
    \/ DoAddLocate
    \/ DoAddView
    \/ DoAddPlus

SpecFlows == InitFlows /\ [][NextFlows]_vars

SpecFlowsLive == SpecFlows /\ WF_vars(NextFlows)

\* C17: every invocation of reorder_last_order, place_order, set_address_and_delivery and
\* add_items_to_cart_structured eventually returns, whatever the UI does: every pass of
\* every scroll loop either leaves the loop or counts, and every counter is capped.
C17_EveryFlowReturns == <>(lpc = "returned")

\* reorder_last_order has returned after its budget of attempts was used up
C17_Witness ==
    /\ op = "reorder_last_order"
    /\ lpc = "returned"
    /\ outer >= max_attempts

\* the counters stay within their caps (the attempt counter overshoots by what one pass
\* over the cards fetched can add)
C17_CountersCapped ==
    /\ outer <= max_attempts + MaxCards
    /\ inner <= max_time_scroll_attempts
    /\ lpc = "name" => inner <= max_name_scroll_attempts
    /\ lpc = "button" => inner <= max_reorder_scroll_attempts
    /\ lpc = "date" => inner <= max_scroll_attempts
    /\ lpc = "radio" => inner <= max_address_scroll_attempts
    /\ lpc = "view" => inner <= max_scroll_attempts_into_view
    /\ quiet < end_of_list_count

(***************************************************************************)
(* Requests on one event loop (api/automation.py 7-8: one module-level     *)
(* AutomationService; every endpoint is an async def that awaits one of    *)
(* its methods; main.py 48-55: one uvicorn server).                        *)
(*                                                                         *)
(* A task keeps the loop's thread until it awaits something that is not    *)
(* ready or finishes.  The service's methods wait with time.sleep and      *)
(* await nothing but one another (automation.py 131, 178-181, 307-311,     *)
(* 368-372, 738-748, 1494-1500, 1574-1584).                                *)
(***************************************************************************)
MaxRequests == 2

Requests == 1..MaxRequests

\* the steps of a workflow of the service: an awaited method of the service (it issues
\* driver calls of its own), a blocking wait, a driver call
search_item ==
    <<"await_method", "sleep", "driver", "driver", "sleep", "driver", "sleep", "driver">>

reorder_last_order ==
    <<"await_method", "sleep", "driver", "sleep", "driver", "sleep", "driver">>

\* POST /voice/command reads the upload before anything else
process_voice_command == <<"await_io">> \o reorder_last_order

Endpoints == {"search-item", "reorder-last-order", "voice-command"}

Handler(kind) ==
    CASE kind = "search-item" -> search_item
      [] kind = "reorder-last-order" -> reorder_last_order
      [] OTHER -> process_voice_command

\* asyncio.sleep in the place of time.sleep: the wait hands the loop to the other tasks
SuspendsAtSleep(step) == step \in {"await_io", "sleep"}

\* whether the task gives up the event loop at this step
Suspends(step) == step = "await_io"

IssuesDriverCall(step) == step \in {"driver", "await_method"}

InitServe ==
    /\ rkind \in [Requests -> Endpoints]
    /\ rstate = [r \in Requests |-> "unsent"]
    /\ rpos = [r \in Requests |-> 0]
    /\ loop_thread = 0
    /\ driver_calls = <<>>
    /\ IdleSvc
    /\ IdleOffPlace
    /\ IdlePlace
    /\ IdleSlot
    /\ IdleResolve
    /\ IdleClick
    /\ IdleFlow
    /\ IdleCombo
    /\ IdleIntent
    /\ IdleCart

\* the server accepts a request and makes a task of its handler
Accept(r) ==
    /\ loop_thread = 0
    /\ rstate[r] = "unsent"
    /\ rstate' = [rstate EXCEPT ![r] = "ready"]
    /\ UNCHANGED <<rkind, rpos, loop_thread, driver_calls>>
    /\ UNCHANGED <<svcVars, offServe>>

\* the event loop runs a task that is ready
Resume(r) ==
    /\ loop_thread = 0
    /\ rstate[r] = "ready"
    /\ rstate' = [rstate EXCEPT ![r] = "running"]
    /\ loop_thread' = r
    /\ UNCHANGED <<rkind, rpos, driver_calls>>
    /\ UNCHANGED <<svcVars, offServe>>

\* the running task executes its next step
HandlerStep(r) ==
    /\ loop_thread = r
    /\ rstate[r] = "running"
    /\ \E step \in {Handler(rkind[r])[rpos[r] + 1]} :
          /\ driver_calls' = IF IssuesDriverCall(step) THEN Append(driver_calls, r) ELSE driver_calls
          /\ rpos' = [rpos EXCEPT ![r] = @ + 1]
          /\ IF rpos[r] + 1 = Len(Handler(rkind[r]))
             THEN rstate' = [rstate EXCEPT ![r] = "returned"] /\ loop_thread' = 0
             ELSE IF Suspends(step)
             THEN rstate' = [rstate EXCEPT ![r] = "ready"] /\ loop_thread' = 0
             ELSE UNCHANGED <<rstate, loop_thread>>
    /\ UNCHANGED rkind
    /\ UNCHANGED <<svcVars, offServe>>

NextServe ==
    \/ \E r \in Requests : Accept(r)
    \/ \E r \in Requests : Resume(r)
    \/ \E r \in Requests : HandlerStep(r)

SpecServe == InitServe /\ [][NextServe]_vars

\* the requests whose workflow has issued a driver call and has not returned
InWorkflow ==
    {r \in Requests : rstate[r] # "returned" /\ \E i \in 1..Len(driver_calls) : driver_calls[i] = r}

\* C18: within one server process the driver calls of two requests never interleave: between
\* two driver calls of one request there is no driver call of another, and at no time have
\* two requests a workflow under way.
C18_NoInterleavedDriverCalls ==
    /\ Cardinality(InWorkflow) <= 1
    /\ \A i \in 1..Len(driver_calls) : \A k \in i..Len(driver_calls) :
          driver_calls[i] = driver_calls[k] => \A j \in i..k : driver_calls[j] = driver_calls[i]

\* a request was accepted and waits while the workflow of another is under way
C18_Witness ==
    \E r \in Requests : \E q \in Requests \ {r} :
       /\ r \in InWorkflow
       /\ rstate[q] = "ready"
       /\ Len(driver_calls) >= 2

(***************************************************************************)
(* Reorder with extra items (api/automation.py 141-175, reorder_with_items;*)
(* voice_service.py 145-188, _execute_intent, "reorder_with_items")        *)
(***************************************************************************)
MaxExtras == 2

\* item objects: with a quantity, and without one
ItemObjects == {[item |-> "coffee", quantity |-> 2], [item |-> "tea"]}

ExtraLists == UNION {[1..n -> ItemObjects] : n \in 0..MaxExtras}

\* {"item": item_obj.get("item", ""), "quantity": item_obj.get("quantity", 1)}
StructuredItem(item_obj) ==
    [item |-> IF "item" \in DOMAIN item_obj THEN item_obj.item ELSE "",
     quantity |-> IF "quantity" \in DOMAIN item_obj THEN item_obj.quantity ELSE 1]

ItemsStructured(items_data) == [i \in 1..Len(items_data) |-> StructuredItem(items_data[i])]

\* the extras are added whenever there are any
AddsExtrasRegardless(status, items_data) == items_data # <<>>

\* reorder_result.get("success") and request.items; items_data and reorder_result.get("success")
AddsExtras(status, items_data) == status = "success" /\ items_data # <<>>

InitCombo ==
    /\ entry \in {"api", "voice"}
    /\ extra_items \in ExtraLists
    /\ opc = "call"
    /\ reorder_status = "none"
    /\ service_calls = <<>>
    /\ pending_items = <<>>
    /\ ui_actions = <<>>
    /\ add_items_status = "None"
    /\ IdleSvc
    /\ IdleOffPlace
    /\ IdlePlace
    /\ IdleSlot
    /\ IdleResolve
    /\ IdleClick
    /\ IdleFlow
    /\ IdleServe
    /\ IdleIntent
    /\ IdleCart

\* reorder_result = await automation_service.reorder_last_order(); a raise leaves the
\* operation through the endpoint's except
DoReorderFirst ==
    /\ opc = "call"
    /\ service_calls' = Append(service_calls, "reorder_last_order")
    /\ \E status \in {"success", "failure", "raised"} :
          /\ reorder_status' = status
          /\ opc' = IF status = "raised" THEN "returned" ELSE "reordered"
    /\ UNCHANGED <<entry, extra_items, pending_items, ui_actions, add_items_status>>
    /\ UNCHANGED <<svcVars, offCombo>>

\* the test on the reorder's result and the items, and the call of
\* add_items_to_cart_structured or the return without it
DoExtrasOrReturn ==
    /\ opc = "reordered"
    /\ IF AddsExtras(reorder_status, extra_items)
       THEN /\ service_calls' = Append(service_calls, "add_items_to_cart_structured")
            /\ pending_items' = ItemsStructured(extra_items)
            /\ opc' = "adding"
            /\ UNCHANGED add_items_status
       ELSE /\ opc' = "returned"
            /\ UNCHANGED <<service_calls, pending_items, add_items_status>>
    /\ UNCHANGED <<entry, extra_items, reorder_status, ui_actions>>
    /\ UNCHANGED <<svcVars, offCombo>>

\* add_items_to_cart_structured, one item: search_item, and _add_first_result_to_cart
\* after a successful search; after the last item its result goes into the response
DoAddExtra ==
    /\ opc = "adding"
    /\ IF pending_items = <<>>
       THEN /\ opc' = "returned"
            /\ add_items_status' = "result"
            /\ UNCHANGED <<pending_items, ui_actions>>
       ELSE /\ \E found \in BOOLEAN :
                  ui_actions' = ui_actions \o <<"search">> \o (IF found THEN <<"add_to_cart">> ELSE <<>>)
            /\ pending_items' = Tail(pending_items)
            /\ UNCHANGED <<opc, add_items_status>>
    /\ UNCHANGED <<entry, extra_items, reorder_status, service_calls>>
    /\ UNCHANGED <<svcVars, offCombo>>

NextCombo ==
    \/ DoReorderFirst
    \/ DoExtrasOrReturn
    \/ DoAddExtra

SpecCombo == InitCombo /\ [][NextCombo]_vars

\* C19: in the reorder-with-items operation reorder_last_order is the first method invoked;
\* add_items_to_cart_structured is invoked only after a successful reorder and with a
\* non-empty list of extras; after a failed reorder nothing is searched or added.
C19_ReorderFirstExtrasOnlyOnSuccess ==
    /\ service_calls # <<>> => service_calls[1] = "reorder_last_order"
    /\ (\E i \in 1..Len(service_calls) : service_calls[i] = "add_items_to_cart_structured")
          => reorder_status = "success" /\ extra_items # <<>>
    /\ reorder_status # "success" => ui_actions = <<>> /\ add_items_status = "None"
    /\ opc = "returned" /\ reorder_status = "success" /\ extra_items # <<>>
          => service_calls = <<"reorder_last_order", "add_items_to_cart_structured">>

\* the reorder succeeded and the extras were searched and added
C19_Witness ==
    /\ opc = "returned"
    /\ reorder_status = "success"
    /\ Len(extra_items) = MaxExtras
    /\ Len(ui_actions) = 2 * MaxExtras

\* the reorder failed with extras given, and the operation returned without them
C19_FailureWitness ==
    /\ opc = "returned"
    /\ reorder_status = "failure"
    /\ extra_items # <<>>
    /\ service_calls = <<"reorder_last_order">>

(***************************************************************************)
(* The keyword fallback of the intent parser (ai_agent.py 97-214,          *)
(* _fallback_intent_parsing) and what the voice service does with the      *)
(* intent (voice_service.py 107-209, _execute_intent).  Of the place_order *)
(* intent the type is kept; its date and time preferences are not.         *)
(***************************************************************************)
reorder_keywords ==
    <<<<"r", "e", "o", "r", "d", "e", "r">>,
      <<"u", "s", "u", "a", "l">>,
      <<"l", "a", "s", "t", " ", "o", "r", "d", "e", "r">>,
      <<"p", "r", "e", "v", "i", "o", "u", "s", " ", "o", "r", "d", "e", "r">>>>

add_keywords ==
    <<<<"a", "d", "d">>,
      <<"p", "l", "u", "s">>,
      <<"a", "n", "d", " ", "a", "l", "s", "o">>,
      <<"a", "l", "s", "o", " ", "a", "d", "d">>>>

place_order_keywords ==
    <<<<"p", "l", "a", "c", "e", " ", "o", "r", "d", "e", "r">>,
      <<"c", "h", "e", "c", "k", "o", "u", "t">>,
      <<"o", "r", "d", "e", "r", " ", "n", "o", "w">>,
      <<"c", "o", "m", "p", "l", "e", "t", "e", " ", "o", "r", "d", "e", "r">>,
      <<"f", "i", "n", "a", "l", "i", "z", "e", " ", "o", "r", "d", "e", "r">>>>

list_keywords ==
    <<<<"l", "i", "s", "t">>,
      <<"s", "h", "o", "w">>,
      <<"w", "h", "a", "t">>,
      <<"c", "a", "r", "t">>>>

item_verbs ==
    <<<<"a", "d", "d">>,
      <<"n", "e", "e", "d">>,
      <<"w", "a", "n", "t">>,
      <<"g", "e", "t">>>>

\* any(keyword in text for keyword in keywords)
AnyIn(keywords, text) == \E k \in 1..Len(keywords) : Contains(keywords[k], text)

\* text.find(sub, from), 0 for no occurrence
RECURSIVE Find(_, _, _)
Find(sub, text, from) ==
    IF from + Len(sub) - 1 > Len(text) THEN 0
    ELSE IF SubSeq(text, from, from + Len(sub) - 1) = sub THEN from
    ELSE Find(sub, text, from + 1)

\* text.split(sep)[1] for a text that holds sep
SecondPart(text, sep) ==
    LET first == Find(sep, text, 1)
        start == first + Len(sep)
        next  == Find(sep, text, start)
    IN SubSeq(text, start, IF next = 0 THEN Len(text) ELSE next - 1)

\* text.replace(old, new)
RECURSIVE Replace(_, _, _)
Replace(text, old, new) ==
    IF Find(old, text, 1) = 0 THEN text
    ELSE SubSeq(text, 1, Find(old, text, 1) - 1) \o new
            \o Replace(SubSeq(text, Find(old, text, 1) + Len(old), Len(text)), old, new)

\* text.split(",")
RECURSIVE SplitOn(_, _)
SplitOn(text, sep) ==
    IF Find(sep, text, 1) = 0 THEN <<text>>
    ELSE <<SubSeq(text, 1, Find(sep, text, 1) - 1)>>
            \o SplitOn(SubSeq(text, Find(sep, text, 1) + Len(sep), Len(text)), sep)

\* [item for item in items if item]
RECURSIVE NonEmpty(_)
NonEmpty(items_) ==
    IF items_ = <<>> THEN <<>>
    ELSE IF Head(items_) = <<>> THEN NonEmpty(Tail(items_))
    ELSE <<Head(items_)>> \o NonEmpty(Tail(items_))

\* [item.strip() for item in remaining.replace("and", ",").split(",")], the empty ones dropped
ExtractItems(remaining) ==
    LET pieces == SplitOn(Replace(remaining, <<"a", "n", "d">>, <<",">>), <<",">>)
    IN NonEmpty([i \in 1..Len(pieces) |-> Strip(pieces[i])])

\* the first of add_keywords the command holds
FirstAddKeyword(command_lower) ==
    add_keywords[CHOOSE k \in 1..Len(add_keywords) :
                    /\ Contains(add_keywords[k], command_lower)
                    /\ \A j \in 1..(k - 1) : ~Contains(add_keywords[j], command_lower)]

\* text.split()
Words(text) == NonEmpty(SplitOn(text, <<" ">>))

RECURSIVE JoinWords(_)
JoinWords(ws) ==
    IF ws = <<>> THEN <<>>
    ELSE IF Len(ws) = 1 THEN Head(ws)
    ELSE Head(ws) \o <<" ">> \o JoinWords(Tail(ws))

\* the items of the default branch
DefaultItems(command_, command_lower) ==
    LET parts == Words(command_lower)
        verbs == {i \in 1..Len(parts) : \E k \in 1..Len(item_verbs) : parts[i] = item_verbs[k]}
        found == IF (Contains(<<"a", "d", "d">>, command_lower) \/ Contains(<<"n", "e", "e", "d">>, command_lower) \/ Contains(<<"w", "a", "n", "t">>, command_lower))
                   /\ verbs # {}
                 THEN ExtractItems(JoinWords(SubSeq(parts, (CHOOSE i \in verbs : \A j \in verbs : i <= j) + 1, Len(parts))))
                 ELSE <<>>
    IN IF found # <<>> THEN found ELSE <<command_>>

FallbackIntentParsing(command_) ==
    LET command_lower == Lower(command_)
        has_reorder == AnyIn(reorder_keywords, command_lower)
        has_add == AnyIn(add_keywords, command_lower)
    IN IF has_reorder /\ has_add
       THEN [type |-> "reorder_with_items",
             items |-> ExtractItems(Strip(SecondPart(command_lower, FirstAddKeyword(command_lower))))]
       ELSE IF has_reorder THEN [type |-> "reorder", items |-> <<>>]
       ELSE IF AnyIn(place_order_keywords, command_lower) THEN [type |-> "place_order", items |-> <<>>]
       ELSE IF AnyIn(list_keywords, command_lower) THEN [type |-> "list_items", items |-> <<>>]
       ELSE [type |-> "add_items", items |-> DefaultItems(command_, command_lower)]

\* _execute_intent: the methods of the automation service an intent leads to (the second
\* of reorder_with_items only after a successful reorder)
ExecuteIntent(type, items_, reorder_ok) ==
    CASE type = "add_items" -> <<"add_items_to_cart_structured">>
      [] type = "reorder" -> <<"reorder_last_order">>
      [] type = "reorder_with_items" ->
            IF items_ # <<>> /\ reorder_ok
            THEN <<"reorder_last_order", "add_items_to_cart_structured">>
            ELSE <<"reorder_last_order">>
      [] type = "place_order" -> <<"place_order">>
      [] OTHER -> <<>>

(***************************************************************************)
(* SpecIntent: one text command, parsed by the fallback and executed       *)
(***************************************************************************)
\* "Add milk, eggs, and bread"
AddMilkEggsAndBread ==
    <<"A", "d", "d", " ", "m", "i", "l", "k", ",", " ", "e", "g", "g", "s", ",", " ", "a", "n", "d", " ", "b", "r", "e", "a", "d">>

\* "I need 3 milks and 2 eggs"
INeedMilksAndEggs ==
    <<"I", " ", "n", "e", "e", "d", " ", "3", " ", "m", "i", "l", "k", "s", " ", "a", "n", "d", " ", "2", " ", "e", "g", "g", "s">>

\* "Add my usual groceries"
AddMyUsualGroceries ==
    <<"A", "d", "d", " ", "m", "y", " ", "u", "s", "u", "a", "l", " ", "g", "r", "o", "c", "e", "r", "i", "e", "s">>

\* "Reorder from last week"
ReorderFromLastWeek ==
    <<"R", "e", "o", "r", "d", "e", "r", " ", "f", "r", "o", "m", " ", "l", "a", "s", "t", " ", "w", "e", "e", "k">>

\* "Reorder my last order and add milk"
ReorderMyLastOrderAndAddMilk ==
    <<"R", "e", "o", "r", "d", "e", "r", " ", "m", "y", " ", "l", "a", "s", "t", " ", "o", "r", "d", "e", "r", " ", "a", "n", "d", " ", "a", "d", "d", " ", "m", "i", "l", "k">>

\* "Add my usual groceries plus eggs"
AddMyUsualGroceriesPlusEggs ==
    <<"A", "d", "d", " ", "m", "y", " ", "u", "s", "u", "a", "l", " ", "g", "r", "o", "c", "e", "r", "i", "e", "s", " ", "p", "l", "u", "s", " ", "e", "g", "g", "s">>

\* "Place my order"
PlaceMyOrder ==
    <<"P", "l", "a", "c", "e", " ", "m", "y", " ", "o", "r", "d", "e", "r">>

\* "Checkout"
Checkout ==
    <<"C", "h", "e", "c", "k", "o", "u", "t">>

\* "What's in my cart?"
WhatsInMyCart ==
    <<"W", "h", "a", "t", "'", "s", " ", "i", "n", " ", "m", "y", " ", "c", "a", "r", "t", "?">>

\* "Show my previous orders"
ShowMyPreviousOrders ==
    <<"S", "h", "o", "w", " ", "m", "y", " ", "p", "r", "e", "v", "i", "o", "u", "s", " ", "o", "r", "d", "e", "r", "s">>

\* the example commands of the system prompt, by the intent it documents for them
DocumentedAdding == {AddMilkEggsAndBread, INeedMilksAndEggs}

DocumentedReordering == {AddMyUsualGroceries, ReorderFromLastWeek}

DocumentedReorderingWithItems == {ReorderMyLastOrderAndAddMilk, AddMyUsualGroceriesPlusEggs}

DocumentedPlacing == {PlaceMyOrder, Checkout}

DocumentedListing == {WhatsInMyCart, ShowMyPreviousOrders}

DocumentedCommands ==
    DocumentedAdding \cup DocumentedReordering \cup DocumentedReorderingWithItems
       \cup DocumentedPlacing \cup DocumentedListing

\* the longest command made of phrases
MaxPhrases == 2

Phrases ==
    {<<"s", "h", "o", "w">>,
     <<"m", "y", " ", "p", "r", "e", "v", "i", "o", "u", "s", " ", "o", "r", "d", "e", "r", "s">>,
     <<"u", "s", "u", "a", "l">>,
     <<"a", "d", "d">>,
     <<"m", "i", "l", "k">>,
     <<"c", "a", "r", "t">>,
     <<"c", "h", "e", "c", "k", "o", "u", "t">>,
     <<"P", "l", "u", "s", " ", "e", "g", "g", "s">>}

RECURSIVE PhraseCommands(_)
PhraseCommands(n) ==
    IF n = 0 THEN {<<>>}
    ELSE PhraseCommands(n - 1)
            \cup {IF c = <<>> THEN p ELSE c \o <<" ">> \o p : c \in PhraseCommands(n - 1), p \in Phrases}

Commands == DocumentedCommands \cup (PhraseCommands(MaxPhrases) \ {<<>>})

InitIntent ==
    /\ command \in Commands
    /\ ipc = "call"
    /\ intent_type = ""
    /\ intent_items = <<>>
    /\ executed_calls = <<>>
    /\ IdleSvc
    /\ IdleOffPlace
    /\ IdlePlace
    /\ IdleSlot
    /\ IdleResolve
    /\ IdleClick
    /\ IdleFlow
    /\ IdleServe
    /\ IdleCombo
    /\ IdleCart

\* understand_intent when the model cannot be asked: _fallback_intent_parsing(command)
CallFallbackIntentParsing ==
    /\ ipc = "call"
    /\ \E intent \in {FallbackIntentParsing(command)} :
          /\ intent_type' = intent.type
          /\ intent_items' = intent.items
    /\ ipc' = "parsed"
    /\ UNCHANGED <<command, executed_calls>>
    /\ UNCHANGED <<svcVars, offIntent>>

CallExecuteIntent ==
    /\ ipc = "parsed"
    /\ \E reorder_ok \in BOOLEAN :
          executed_calls' = ExecuteIntent(intent_type, intent_items, reorder_ok)
    /\ ipc' = "executed"
    /\ UNCHANGED <<command, intent_type, intent_items>>
    /\ UNCHANGED <<svcVars, offIntent>>

NextIntent ==
    \/ CallFallbackIntentParsing
    \/ CallExecuteIntent

SpecIntent == InitIntent /\ [][NextIntent]_vars

CartChangingIntents == {"add_items", "reorder", "reorder_with_items", "place_order"}

\* C20: the fallback gives each documented example its documented intent: list_items for
\* "Show my previous orders" and "What's in my cart?", reorder for "Add my usual groceries",
\* and no documented listing command gets an intent that changes the cart.
C20_DocumentedExamplesClassified ==
    ipc # "call" =>
       /\ command \in DocumentedListing => intent_type = "list_items"
       /\ command = AddMyUsualGroceries => intent_type = "reorder"
       /\ command \in DocumentedListing => intent_type \notin CartChangingIntents

\* what the fallback does give: the words of a reorder win over the words of a listing, and
\* "add" next to them makes a reorder with extra items
C20_ReorderWordsWin ==
    ipc # "call" =>
       /\ command = WhatsInMyCart => intent_type = "list_items"
       /\ command = ShowMyPreviousOrders => intent_type = "reorder"
       /\ command = AddMyUsualGroceries
             => intent_type = "reorder_with_items" /\ intent_items = <<<<"m", "y", " ", "u", "s", "u", "a", "l", " ", "g", "r", "o", "c", "e", "r", "i", "e", "s">>>>
       /\ AnyIn(reorder_keywords, Lower(command)) => intent_type \in {"reorder", "reorder_with_items"}

\* "Show my previous orders" was executed: the reorder flow ran
C20_ListingRunsReorder ==
    /\ command = ShowMyPreviousOrders
    /\ ipc = "executed"
    /\ executed_calls = <<"reorder_last_order">>

\* C21: every swipe of the scroll-into-view loop is no longer than the distance by which
\* the element's bottom (or top) edge lies beyond the margin line of its screen edge, and
\* no longer than half the screen height.
C21_SwipeWithinNeed ==
    swipes > 0 /\ (went_up \/ went_down) =>
       /\ last_length <= last_need
       /\ 2 * last_length <= ScreenPx

\* what the swipe is sized to: the distance beyond the margin line plus one more margin,
\* capped at half the screen height
C21_SwipeIsNeedPlusMargin ==
    swipes > 0 /\ (went_up \/ went_down) =>
       /\ last_length <= last_need + margin
       /\ 2 * last_length <= ScreenPx + 1
       /\ 2 * (last_need + margin) <= ScreenPx => last_length = last_need + margin

\* the element's bottom lay 50 pixels below the lower margin line and the swipe was 100 long
C21_SwipedMargin ==
    /\ list_follows
    /\ swipes = 1
    /\ went_up
    /\ last_need = margin
    /\ last_length = 2 * margin

\* C22: within one call the swipes never change direction: a call that has swiped towards
\* the top never swipes towards the bottom and the other way round, whatever the element's
\* size and place, on a list that moves by just the length of each gesture.
C22_NoReversal == list_follows => ~(went_up /\ went_down)

\* on a list that follows, the elements swiped both ways are those with less than a margin
\* to spare between the margin lines
C22_SameDirectionRuns ==
    (list_follows /\ went_up /\ went_down) => button_height + margin > ScreenPx - 2 * margin

\* the element that fits between the margins was swiped up and down five times and is still
\* not between them
C22_Oscillated ==
    /\ list_follows
    /\ button_height + 2 * margin < ScreenPx
    /\ went_up
    /\ went_down
    /\ swipes = max_scroll_attempts_into_view
    /\ cpc = "done"
    /\ ~FullyVisible(button_top_y, button_height)

\* C23: in every element lookup a strategy whose configured value is empty is passed over
\* without a driver query, the lookups of the product list and the products recycler at the
\* start of _add_first_result_to_cart included, and the lookup does not fail as long as a
\* configured strategy finds the element.
C23_EmptyStrategyNeverQueried ==
    /\ \A i \in 1..Len(Strategies) :
          SelectorOf(i) = "" => \A k \in 1..Len(queried) : queried[k] # Strategies[i]
    /\ fpc # "call" /\ (\E i \in 1..Len(Strategies) : SelectorOf(i) # "" /\ Strategies[i] \in located)
          => ~raised

\* find_element_by_selector does pass over the empty strategies, and the direct lookups do
\* not fail for a missing value alone
C23_ResolverSkipsEmpty ==
    /\ fpc = "done" => C23_EmptyStrategyNeverQueried
    /\ fpc # "call" /\ (\E i \in 1..Len(Strategies) : SelectorOf(i) # "" /\ Strategies[i] \in located)
          => ~raised

\* the product list was looked up by its resource id after a query with the empty XPath
C23_EmptyXPathQueried ==
    /\ fpc = "product_list"
    /\ xpath = ""
    /\ queried = <<"xpath", "resource_id">>
    /\ element = "resource_id"
    /\ ~raised

\* C24: find_and_click_element never swipes for nor clicks an element that has an
\* ad_container ancestor, whatever the ancestor query answers: it returns failure with the
\* message naming the ad container.
C24_AdElementNeverClicked ==
    in_ad /\ cpc # "locate" =>
       /\ swipes = 0
       /\ ~clickTried
       /\ cpc = "done"
       /\ ~cret.ok
       /\ cret.msg \in {"Element not found", "Element is inside ad_container"}

\* the ancestor query raised and the element in the ad container was clicked with success
C24_AdElementClicked ==
    /\ in_ad
    /\ cpc = "done"
    /\ clickTried
    /\ cret.ok

\* C25: after every swipe the element is fetched again with the strategy that found it, and
\* the handle the click is tried on was fetched after the last swipe of the call.
C25_ClickedHandleIsFresh ==
    /\ refound_with \in {"", locator}
    /\ clickTried => handle_swipes = swipes

\* the re-find does use the caller's strategy, and a handle that was fetched again is the
\* one clicked
C25_RefoundWithSameStrategy ==
    /\ refound_with \in {"", locator}
    /\ swipes > 0 /\ scroll_attempt > 0 => refound_with = locator
    /\ clickTried => clickHandle = handle

\* the element was lost after a swipe and the click on the handle of before succeeded
C25_StaleHandleClicked ==
    /\ cpc = "done"
    /\ swipes = 1
    /\ scroll_attempt = 1
    /\ handle = 1
    /\ handle_swipes = 0
    /\ clickTried
    /\ cret.ok

\* C26: in reorder_last_order no order-card handle fetched before a swipe or a back
\* navigation is used after it: after every action that changes the screen the cards are
\* fetched again before any card's displayed state, position, status or carousel is read.
C26_NoHandleAcrossScreenChange == ~staleUsed

\* the swipe past an arriving card moved the list, and the next card of the same fetch was
\* opened through its old handle
C26_OpenedThroughOldHandle ==
    /\ staleUsed
    /\ ~faulted
    /\ rpc = "detail"
    /\ attempt = 1
    /\ card_index = 2

\* C29: within one call no order card's detail view is opened twice, also after a swipe has
\* moved the cards already visited to other places on the screen.
C29_NoCardOpenedTwice == ~reopened

\* as long as the list has not moved, no card is opened twice
C29_NotTwiceWhileListRests == off = 0 => ~reopened

\* with no driver call failing and no old handle used, the first card was opened, the list
\* was swiped and the first card was opened again at its new place
C29_FirstCardOpenedAgain ==
    /\ reopened
    /\ ~faulted
    /\ ~staleUsed
    /\ rpc = "detail"
    /\ detailOf = 1
    /\ off > 0

\* the preference matches no item of the time list: no slot is selected for it and none is
\* kept as best_match
NoSlotMatches ==
    /\ time_preference # <<>>
    /\ \A k \in 1..Len(time_slots) : SlotMatch(time_preference, k) = "no"

\* C27: with a time preference that matches no slot, _select_delivery_time scrolls at most
\* 50 times, does not go on scrolling once three checks in a row have found no label that
\* was not seen before, and returns a failure without having clicked a slot.
\* (stated as "the call behaves so, or some slot matches")
C27_UnmatchedPreferenceStops ==
    \/ /\ time_scroll_attempts <= 50
       /\ tpc = "loop" => no_new_items_count < 3
       /\ no_new_items_count <= 3
       /\ timeClicked = 0
       /\ tpc = "done" => ~tret.success
    \/ ~NoSlotMatches

\* the list ended: after two scrolls that showed nothing new the third check stopped the
\* call, which returned that no slot matches
C27_Witness ==
    /\ tpc = "done"
    /\ tret.kind = "no_match"
    /\ no_new_items_count = 3
    /\ time_scroll_attempts >= 2
    /\ Len(time_slots) = MaxSlots
    /\ timeClicked = 0
    /\ NoSlotMatches

\* the list went on: every scroll showed a new label and the call stopped at 50 scrolls
C27_StoppedAtFiftyScrolls ==
    /\ tpc = "done"
    /\ tret.kind = "no_match"
    /\ time_scroll_attempts = 50
    /\ no_new_items_count = 0
    /\ NoSlotMatches

(***************************************************************************)
(* SpecCart: one call of _add_first_result_to_cart (automation.py 399-718) *)
(***************************************************************************)
\* the selectors of the configuration that the function tests for emptiness
CartSelectors == {"scoped_xpath", "uiselector", "resource_id", "plus_uiselector", "plus_id"}

\* return {"success": False, "message": "... STEP n FAILED ..."}
CartFail(step) == [success |-> FALSE, step |-> step, quantity |-> 0]

\* find_and_click_element as its caller sees it: (True, "Success") after a click that went
\* through, (False, msg) when the element is not found, is refused or the click raises
ClickOutcomes == {"clicked", "not_found", "click_raised"}

\* WalmartSelectors defines the properties add_to_cart_xpath and add_to_cart_uiselector and
\* has no __getattr__: the read of selectors.add_to_cart_xpath_scoped raises AttributeError
SelectorProperties == {"xpath", "uiselector"}

\* the locators Step 2 tries, in order: the scoped xpath when its read returns a value that
\* is not empty, the plain xpath whatever it holds, the others when not empty
AddChain(conf) ==
    SelectSeq(<<"scoped_xpath", "xpath", "uiselector", "resource_id">>,
              LAMBDA l : \/ l = "scoped_xpath" /\ "scoped_xpath" \in SelectorProperties /\ l \in conf
                         \/ l = "xpath"
                         \/ l \in {"uiselector", "resource_id"} /\ l \in conf)

\* Step 2 on the locators from position i on: the locators tried and whether one clicked;
\* the first success ends the chain
RECURSIVE TryAdd(_, _, _)
TryAdd(chain, outcome, i) ==
    IF i > Len(chain) THEN [tried |-> <<>>, clicked |-> FALSE]
    ELSE IF outcome[chain[i]] = "clicked" THEN [tried |-> <<chain[i]>>, clicked |-> TRUE]
    ELSE LET rest == TryAdd(chain, outcome, i + 1)
         IN  [tried |-> <<chain[i]>> \o rest.tried, clicked |-> rest.clicked]

\* range(quantity): one click too many
PlusRangeWhole(q) == IF q > 1 THEN q ELSE 0

\* range(quantity - 1)
PlusRange(q) == IF q > 1 THEN q - 1 ELSE 0

\* the two lookups of the plus control: the locators waited for and the one that found it
PlusLookup(conf, finds) ==
    LET first  == "plus_uiselector" \in conf
        hit1   == first /\ "plus_uiselector" \in finds
        second == ~hit1 /\ "plus_id" \in conf
        hit2   == second /\ "plus_id" \in finds
    IN  [lookups |-> (IF first THEN <<"plus_uiselector">> ELSE <<>>)
                         \o (IF second THEN <<"plus_id">> ELSE <<>>),
         button  |-> IF hit1 THEN "plus_uiselector" ELSE IF hit2 THEN "plus_id" ELSE "None"]

InitCart ==
    /\ add_quantity \in 1..MaxQuantity
    /\ configured \in SUBSET CartSelectors
    /\ kpc = "call"
    /\ add_tried = <<>>
    /\ cart_clicks = <<>>
    /\ plus_lookups = <<>>
    /\ plus_button = "None"
    /\ plus_i = 0
    /\ cart_ret = CartFail("none")
    /\ \E s \in {s \in SvcStarts : s.connected = (s.driver # NoDriver)} :
          /\ driver = s.driver
          /\ connected = s.connected
          /\ created = s.created
          /\ live = s.live
    /\ appium_available = TRUE
    /\ selenium_available = TRUE
    /\ IdleOffPlace
    /\ IdlePlace
    /\ IdleSlot
    /\ IdleResolve
    /\ IdleClick
    /\ IdleFlow
    /\ IdleServe
    /\ IdleCombo
    /\ IdleIntent

\* the guards and Step 1: the product list is waited for by xpath, then by id
DoFirstResultStart ==
    /\ kpc = "call"
    /\ \E list \in {"found", "missing", "raise"} :
          IF ~selenium_available \/ ~appium_available \/ driver = NoDriver
          THEN kpc' = "returned" /\ cart_ret' = CartFail("not_connected")
          ELSE IF list = "missing" THEN kpc' = "returned" /\ cart_ret' = CartFail("step1")
          ELSE IF list = "raise" THEN kpc' = "returned" /\ cart_ret' = CartFail("except")
          ELSE kpc' = "step2" /\ UNCHANGED cart_ret
    /\ UNCHANGED <<add_quantity, configured, add_tried, cart_clicks, plus_lookups, plus_button, plus_i>>
    /\ UNCHANGED <<svcVars, offCart>>

\* Step 2: the add-to-cart button is clicked through the first locator that works
DoFirstResultStep2 ==
    /\ kpc = "step2"
    /\ \E outcome \in [{"scoped_xpath", "xpath", "uiselector", "resource_id"} -> ClickOutcomes] :
       \E r \in {TryAdd(AddChain(configured), outcome, 1)} :
          /\ add_tried' = r.tried
          /\ IF r.clicked
             THEN /\ cart_clicks' = Append(cart_clicks, "add")
                  /\ kpc' = "step3"
                  /\ UNCHANGED cart_ret
             ELSE /\ kpc' = "returned"
                  /\ cart_ret' = CartFail("step2")
                  /\ UNCHANGED cart_clicks
    /\ UNCHANGED <<add_quantity, configured, plus_lookups, plus_button, plus_i>>
    /\ UNCHANGED <<svcVars, offCart>>

\* Step 3 up to the for loop: with quantity > 1 the plus control is looked up
DoFirstResultStep3 ==
    /\ kpc = "step3"
    /\ \E finds \in SUBSET {"plus_uiselector", "plus_id"} :
       \E p \in {PlusLookup(configured, finds)} :
          IF add_quantity > 1
          THEN /\ plus_lookups' = p.lookups
               /\ plus_button' = p.button
               /\ IF p.button = "None"
                  THEN kpc' = "returned" /\ cart_ret' = CartFail("step3")
                  ELSE kpc' = "plus" /\ UNCHANGED cart_ret
          ELSE /\ kpc' = "returned"
               /\ cart_ret' = [success |-> TRUE, step |-> "none", quantity |-> add_quantity]
               /\ UNCHANGED <<plus_lookups, plus_button>>
    /\ UNCHANGED <<add_quantity, configured, add_tried, cart_clicks, plus_i>>
    /\ UNCHANGED <<svcVars, offCart>>

\* one pass of the for loop: plus_button.click(); after the last pass the return
DoFirstResultPlus ==
    /\ kpc = "plus"
    /\ \E click \in {"ok", "raise"} :
          IF plus_i >= PlusRange(add_quantity)
          THEN /\ kpc' = "returned"
               /\ cart_ret' = [success |-> TRUE, step |-> "none", quantity |-> add_quantity]
               /\ UNCHANGED <<cart_clicks, plus_i>>
          ELSE IF click = "raise"
          THEN /\ kpc' = "returned"
               /\ cart_ret' = CartFail("step3")
               /\ UNCHANGED <<cart_clicks, plus_i>>
          ELSE /\ cart_clicks' = Append(cart_clicks, "plus")
               /\ plus_i' = plus_i + 1
               /\ UNCHANGED <<kpc, cart_ret>>
    /\ UNCHANGED <<add_quantity, configured, add_tried, plus_lookups, plus_button>>
    /\ UNCHANGED <<svcVars, offCart>>

NextCart ==
    \/ DoFirstResultStart
    \/ DoFirstResultStep2
    \/ DoFirstResultStep3
    \/ DoFirstResultPlus

SpecCart == InitCart /\ [][NextCart]_vars

\* C28: a successful _add_first_result_to_cart call for quantity q >= 1 has made exactly
\* one add-to-cart click and after it exactly q - 1 clicks on the plus control, so that the
\* quantity in its message is the number of clicks made; for q = 1 the plus control is
\* neither looked up nor clicked.
C28_OneAddThenQuantityLessOnePlus ==
    /\ cart_ret.success =>
          /\ kpc = "returned"
          /\ cart_clicks = <<"add">> \o [i \in 1..(add_quantity - 1) |-> "plus"]
          /\ cart_ret.quantity = Len(cart_clicks)
          /\ cart_ret.quantity = add_quantity
    /\ add_quantity = 1 => plus_lookups = <<>> /\ plus_button = "None"
    /\ cart_clicks # <<>> => Head(cart_clicks) = "add"

\* a call for three units has returned success: the add button was clicked through the
\* last locator of the chain, the plus control was found by its id
C28_Witness ==
    /\ cart_ret.success
    /\ add_quantity = MaxQuantity
    /\ cart_clicks = <<"add", "plus", "plus">>
    /\ add_tried = <<"xpath", "uiselector", "resource_id">>
    /\ plus_lookups = <<"plus_uiselector", "plus_id">>

\* a call for one unit has returned success without a lookup of the plus control
C28_SingleUnitAdded ==
    /\ cart_ret.success
    /\ add_quantity = 1
    /\ cart_clicks = <<"add">>
    /\ plus_lookups = <<>>

\* C30: when connecting the device or opening the app fails inside search_item, the call
\* returns a failure that names that step, and the search bar is not tapped, nothing is
\* typed and enter is not pressed.
C30_FailedStepAbortsSearch ==
    (lastOp = "search_item" /\ (lastConnect = "failed" \/ lastOpen = "failed")
        /\ appium_available /\ selenium_available) =>
        /\ ~lastOk
        /\ lastMessage \in {"Device not connected", "Failed to open app"}
        /\ lastUi = [tapped |-> FALSE, typed |-> FALSE, entered |-> FALSE]

\* the part that holds: a search_item call in which connect_device fails and leaves no
\* driver returns "Device not connected" without touching the search bar
C30_FailedConnectAbortsSearch ==
    (lastOp = "search_item" /\ lastConnect = "failed" /\ driver = NoDriver
        /\ appium_available /\ selenium_available) =>
        /\ ~lastOk
        /\ lastMessage = "Device not connected"
        /\ lastUi = [tapped |-> FALSE, typed |-> FALSE, entered |-> FALSE]

\* on a connected service activate_app raised inside search_item, and the call went on to
\* tap the search bar, type, press enter and return success
C30_SearchedAfterFailedOpen ==
    /\ lastOp = "search_item"
    /\ lastConnect = "none"
    /\ lastOpen = "failed"
    /\ lastOk
    /\ lastMessage = "Searched for"
    /\ lastUi = [tapped |-> TRUE, typed |-> TRUE, entered |-> TRUE]

\* the slot is marked full or unavailable, in its text or in its content-desc
DateMarked(k) ==
    \/ Contains(sFull, Lower(dates[k].text))
    \/ Contains(sFull, Lower(dates[k].desc))
    \/ Contains(sUnavailable, Lower(dates[k].text))
    \/ Contains(sUnavailable, Lower(dates[k].desc))

\* C31: _select_delivery_date and _select_delivery_time never click a slot that is marked
\* full or unavailable in its text or in its accessibility description, with or without a
\* preference. Here for the date slots of a place_order call.
C31_NoMarkedDateClicked == dateClicked # 0 => ~DateMarked(dateClicked)

\* without a preference the date clicked is one whose content-desc says "Full"
C31_FullDateClicked ==
    /\ date_preference = <<>>
    /\ dateClicked # 0
    /\ dates[dateClicked] = SatFullSlot
    /\ ~pfaulted
    /\ ppc = "time"
    /\ uiLog = <<"cart", "address", "date">>

\* C32: _add_first_result_to_cart queries the scoped XPath of add_to_cart_button first
\* whenever one is configured, and the plain XPath, the UiSelector and the resource id, in
\* that order, only after the scoped lookup or click has failed.
C32_ScopedXPathQueriedFirst ==
    ("scoped_xpath" \in configured /\ add_tried # <<>>) => Head(add_tried) = "scoped_xpath"

\* the part that holds: the locators are tried in the order plain XPath, UiSelector,
\* resource id, each after the one before it has failed
C32_FallbacksInOrder ==
    \E n \in 0..3 : add_tried = SubSeq(AddChain(configured), 1, n)

\* a scoped XPath is configured, and the add-to-cart button was clicked through the plain
\* XPath without the scoped one having been queried
C32_ClickedThroughPlainXPath ==
    /\ "scoped_xpath" \in configured
    /\ add_tried = <<"xpath">>
    /\ cart_clicks = <<"add">>
    /\ cart_ret.success

\* the items of the time list that are slots with a time text and not marked full
AvailableSlots ==
    {k \in 1..Len(time_slots) :
        time_slots[k].slot /\ time_slots[k].time_text # <<>> /\ ~SlotFull(k)}

\* a call without a preference has returned, no driver call having failed
NoPreferenceCallDone ==
    /\ tpc = "done"
    /\ time_preference = <<>>
    /\ ~tfaulted
    /\ driver # NoDriver

\* C33: with no time preference, whenever the time list holds a slot that is not marked
\* full or unavailable, on the first rendered page or beyond it, _select_delivery_time
\* clicks the first such slot and returns success.
C33_FirstAvailableSlotSelected ==
    (NoPreferenceCallDone /\ AvailableSlots # {}) =>
        /\ tret.success
        /\ timeClicked \in AvailableSlots
        /\ \A k \in AvailableSlots : timeClicked <= k

\* the part that holds: when a slot of the first rendered page is available, the first
\* such slot is clicked
C33_FirstAvailableOfFirstPage ==
    (NoPreferenceCallDone /\ \E k \in AvailableSlots : k <= TimeWindow) =>
        /\ tret.success
        /\ timeClicked \in AvailableSlots
        /\ \A k \in AvailableSlots : timeClicked <= k

\* no slot of the first page is available, the item after it is an open slot, and the call
\* has returned that no slot is available, without a scroll and without a click
C33_AvailableSlotBeyondFirstPage ==
    /\ NoPreferenceCallDone
    /\ AvailableSlots = {MaxSlots}
    /\ tret.kind = "none_available"
    /\ time_scroll_attempts = 0
    /\ timeClicked = 0

\* get_status
GetStatus(s) ==
    [connected |-> s.connected, appium_available |-> appium_available,
     driver_active |-> s.driver # NoDriver]

\* C34: in every reachable state of the service connected = true implies that a driver
\* session exists, so that get_status never reports connected = true together with
\* driver_active = false.
C34_ConnectedImpliesDriver ==
    /\ connected => driver # NoDriver
    /\ GetStatus(Svc).connected => GetStatus(Svc).driver_active

\* with Appium installed, webdriver.Remote raised and connect_device reported connected
\* through the ADB fallback: get_status says connected with no driver active
C34_ConnectedWithoutDriver ==
    /\ lastOp = "connect_device"
    /\ lastOk
    /\ appium_available
    /\ GetStatus(Svc) = [connected |-> TRUE, appium_available |-> TRUE, driver_active |-> FALSE]

\* C35: the service holds at most one live driver session after any sequence of
\* connect_device, flow and disconnect calls; a connect_device call made while a session
\* exists creates no second one without quitting the first.
C35_AtMostOneLiveSession == Cardinality(live) <= 1

\* the part that holds: the session the service refers to is a live one
C35_DriverIsLive == driver # NoDriver => driver \in live

\* a second connect_device call has created a second session; the first is still live and
\* the service holds no reference to it
C35_SessionLeaked ==
    /\ lastOp = "connect_device"
    /\ lastOk
    /\ live = {1, 2}
    /\ driver = 2

\* C36: open_walmart_app returns success = true only if the device is connected at that
\* point; when its connect_device call reports connected = false it returns success =
\* false.
C36_OpenedOnlyWhenConnected ==
    (lastOp = "open_walmart_app" /\ lastOk) => (connected /\ lastConnect # "failed")

\* "adb devices" listed no device, connect_device reported connected = false, and
\* open_walmart_app returned success
C36_OpenedWithoutDevice ==
    /\ lastOp = "open_walmart_app"
    /\ lastConnect = "failed"
    /\ lastOk
    /\ ~connected
    /\ driver = NoDriver

\* C37: when _add_first_result_to_cart returns success = false, no add-to-cart click was
\* made in that call: a failure for an item means the cart was not changed for it.
C37_FailureMeansNoClick ==
    (kpc = "returned" /\ ~cart_ret.success) => cart_clicks = <<>>

\* the part that holds: a call for one unit that fails has clicked nothing
C37_SingleUnitFailureMeansNoClick ==
    (kpc = "returned" /\ ~cart_ret.success /\ add_quantity = 1) => cart_clicks = <<>>

\* a call for three units has clicked add-to-cart and the plus control once, the second
\* plus click raised, and the call returned the failure of Step 3
C37_FailedAfterTwoUnits ==
    /\ kpc = "returned"
    /\ ~cart_ret.success
    /\ cart_ret.step = "step3"
    /\ add_quantity = MaxQuantity
    /\ cart_clicks = <<"add", "plus">>

\* C38: reorder_last_order returns the failure of the exhausted budget only after every
\* displayed order card that is not arriving has had its detail view opened: no card never
\* checked is passed over because its coordinates are those recorded for another card.
\* Here for the calls in which no driver call failed and no old handle was used.
C38_NoUncheckedCardPassedOver ==
    (rpc = "done" /\ rret.kind = "exhausted" /\ ~faulted /\ ~staleUsed) =>
        passedOver \subseteq opened

\* the part that holds: while the list has not moved, no card is passed over unopened
C38_NonePassedOverWhileListRests ==
    (off = 0 /\ ~faulted /\ ~staleUsed) => passedOver \subseteq opened

\* of three delivered orders the first two were opened; after the swipe the third lay
\* where a checked card had lain, was passed over on every pass, and the call returned
\* that the budget is exhausted
C38_ThirdOrderNeverOpened ==
    /\ rpc = "done"
    /\ rret.kind = "exhausted"
    /\ ~faulted
    /\ ~staleUsed
    /\ ~reopened
    /\ orders = OtherCustomersOrders
    /\ opened = {1, 2}
    /\ passedOver = {3}

\* C39: in reorder_last_order driver.back() is issued only while an order-detail view is
\* open, never while the purchase-history list is the current screen, whatever driver call
\* fails while a card is processed; the flow never leaves the purchase-history list.
C39_BackOnlyFromDetailView == ~backOnHistory

\* the part that holds: when no driver call fails and no old handle is used, back is
\* issued from the detail view only
C39_BackFromDetailWithoutFault == (~faulted /\ ~staleUsed) => ~backOnHistory

\* a driver call on the first card raised while the list was showing; back was issued
\* there, the app left the purchase history, and the next fetch found no order cards
C39_LeftPurchaseHistory ==
    /\ backOnHistory
    /\ opened = {}
    /\ screen = "account"
    /\ rpc = "done"
    /\ rret.kind = "no_cards"
    /\ attempt = 1

(***************************************************************************)
(* C40: the slot selected for a named period                               *)
(***************************************************************************)
\* the clock texts of the period a preference names ({} when it names none)
PeriodTimes(pref) ==
    LET pref_lower == Strip(Lower(pref))
    IN  IF pref_lower = sMorning THEN MorningTimes
        ELSE IF pref_lower = sAfternoon THEN AfternoonTimes
        ELSE IF pref_lower = sEvening THEN EveningTimes
        ELSE {}

\* the range of slot k starts or ends at one of the clock texts of T
StartsOrEndsIn(k, T) ==
    \E a, b \in ClockTexts :
        /\ Lower(time_slots[k].time_text) = Range(a, b)
        /\ (a \in T \/ b \in T)

\* C40: for a named-period time preference, the slot _select_delivery_time selects has
\* its range start or its range end among the hours of that period
C40_SelectedSlotInsidePeriod ==
    (timeClicked # 0 /\ PeriodTimes(time_preference) # {})
        => StartsOrEndsIn(timeClicked, PeriodTimes(time_preference))

\* for a named period, the text of the slot selected holds one of the period's clock
\* texts as a substring
C40_SelectedTextHoldsPeriodTime ==
    (timeClicked # 0 /\ PeriodTimes(time_preference) # {})
        => \E t \in PeriodTimes(time_preference) :
              Contains(t, Lower(time_slots[timeClicked].time_text))

\* "afternoon" was asked for and the slot 9pm-11pm was clicked
C40_LateSlotForAfternoon ==
    /\ time_preference = sAfternoon
    /\ timeClicked # 0
    /\ tret.success
    /\ ~tfaulted
    /\ time_slots[timeClicked] = OpenSlot(Range(ClockText(9, PM), ClockText(11, PM)))

=============================================================================
